---- MODULE Spec2Model ----
(***************************************************************************)
(* Caption synthesis pipeline of Reely: CaptionRenderer (text wrapping,    *)
(* colour parsing, font loading with cache) and VideoProcessor (word       *)
(* timing split).  Strings are sequences of one-character strings.         *)
(***************************************************************************)
EXTENDS Integers, Sequences, FiniteSets, TLC

VARIABLES
    op,          \* the method being called
    pc,          \* "call" before the method runs, "done" after it returned or raised
    args,        \* the arguments of the call (a record)
    ret,         \* the value returned
    raised,      \* TRUE when the call raised to its caller
    font_cache,  \* CaptionRenderer.font_cache: cache key -> font
    default_fonts, \* CaptionRenderer.default_fonts: system font paths, or ["default"]
    jobs,        \* the video jobs: video_id -> the job's document, locals and position
    temp_dir,    \* VideoProcessor.temp_dir: file name -> the bitmap in the file
    processed_dir, \* settings.processed_dir: the set of files in it
    videos,      \* the "videos" collection: video_id -> document
    requests     \* the HTTP requests received: request id -> the handler's position

vars == <<op, pc, args, ret, raised, font_cache, default_fonts,
          jobs, temp_dir, processed_dir, videos, requests>>

\* no request has been received: no document, no job, no file written
NoJobs ==
    /\ jobs = <<>> /\ temp_dir = <<>> /\ processed_dir = {}
    /\ videos = <<>> /\ requests = <<>>

(***************************************************************************)
(* Bounds                                                                  *)
(***************************************************************************)
MaxTextLen == 5      \* longest caption text, in characters
MaxAdvance == 2      \* widest glyph advance of a font, in pixels
MaxWidth == 4        \* largest max_width, in pixels

SeqsUpTo(S, n) == UNION {[1..k -> S] : k \in 0..n}

Min(a, b) == IF a < b THEN a ELSE b

(***************************************************************************)
(* Python str helpers                                                      *)
(***************************************************************************)
TextChars == {"a", "b", " "}
Texts == SeqsUpTo(TextChars, MaxTextLen)

\* str.split(): maximal runs of non-whitespace characters, in order
RECURSIVE SplitAcc(_, _, _)
SplitAcc(s, cur, acc) ==
    IF s = <<>> THEN (IF cur = <<>> THEN acc ELSE Append(acc, cur))
    ELSE IF Head(s) = " "
         THEN SplitAcc(Tail(s), <<>>, IF cur = <<>> THEN acc ELSE Append(acc, cur))
         ELSE SplitAcc(Tail(s), Append(cur, Head(s)), acc)

Split(s) == SplitAcc(s, <<>>, <<>>)

\* ' '.join(words)
RECURSIVE Join(_)
Join(words) ==
    IF words = <<>> THEN <<>>
    ELSE IF Len(words) = 1 THEN words[1]
    ELSE words[1] \o <<" ">> \o Join(Tail(words))

\* concatenation of a list of lists
RECURSIVE Flatten(_)
Flatten(ss) == IF ss = <<>> THEN <<>> ELSE Head(ss) \o Flatten(Tail(ss))

(***************************************************************************)
(* Fonts: a font is measured through getbbox; the width bbox[2] - bbox[0]  *)
(* of a string is the sum of the advances of its glyphs.                   *)
(***************************************************************************)
Fonts == [TextChars -> 0..MaxAdvance]

RECURSIVE TextWidth(_, _)
TextWidth(font, s) ==
    IF s = <<>> THEN 0 ELSE font[Head(s)] + TextWidth(font, Tail(s))

(***************************************************************************)
(* CaptionRenderer._wrap_text                                              *)
(***************************************************************************)
\* the for loop over words, then the trailing flush of current_line
RECURSIVE WrapLoopJoined(_, _, _, _, _)
WrapLoopJoined(words, lines, current_line, font, max_width) ==
    IF words = <<>>
    THEN (IF current_line # <<>> THEN Append(lines, Join(current_line)) ELSE lines)
    ELSE LET word == Head(words)
             test_line == Join(Append(current_line, word))
             text_width == TextWidth(font, test_line)
         IN  IF text_width <= max_width
             THEN WrapLoopJoined(Tail(words), lines, Append(current_line, word), font, max_width)
             ELSE IF current_line # <<>>
                  THEN WrapLoopJoined(Tail(words), Append(lines, test_line), <<>>, font, max_width)
                  ELSE WrapLoopJoined(Tail(words), Append(lines, word), current_line, font, max_width)

RECURSIVE WrapLoopDropWide(_, _, _, _, _)
WrapLoopDropWide(words, lines, current_line, font, max_width) ==
    IF words = <<>>
    THEN (IF current_line # <<>> THEN Append(lines, Join(current_line)) ELSE lines)
    ELSE LET word == Head(words)
             test_line == Join(Append(current_line, word))
             text_width == TextWidth(font, test_line)
         IN  IF text_width <= max_width
             THEN WrapLoopDropWide(Tail(words), lines, Append(current_line, word), font, max_width)
             ELSE IF current_line # <<>>
                  THEN WrapLoopDropWide(Tail(words), Append(lines, Join(current_line)), <<word>>, font, max_width)
                  ELSE WrapLoopDropWide(Tail(words), lines, current_line, font, max_width)

RECURSIVE WrapLoopStrict(_, _, _, _, _)
WrapLoopStrict(words, lines, current_line, font, max_width) ==
    IF words = <<>>
    THEN (IF current_line # <<>> THEN Append(lines, Join(current_line)) ELSE lines)
    ELSE LET word == Head(words)
             test_line == Join(Append(current_line, word))
             text_width == TextWidth(font, test_line)
         IN  IF text_width < max_width
             THEN WrapLoopStrict(Tail(words), lines, Append(current_line, word), font, max_width)
             ELSE IF current_line # <<>>
                  THEN WrapLoopStrict(Tail(words), Append(lines, Join(current_line)), <<word>>, font, max_width)
                  ELSE WrapLoopStrict(Tail(words), Append(lines, word), current_line, font, max_width)

RECURSIVE WrapLoopLoseWord(_, _, _, _, _)
WrapLoopLoseWord(words, lines, current_line, font, max_width) ==
    IF words = <<>>
    THEN (IF current_line # <<>> THEN Append(lines, Join(current_line)) ELSE lines)
    ELSE LET word == Head(words)
             test_line == Join(Append(current_line, word))
             text_width == TextWidth(font, test_line)
         IN  IF text_width <= max_width
             THEN WrapLoopLoseWord(Tail(words), lines, Append(current_line, word), font, max_width)
             ELSE IF current_line # <<>>
                  THEN WrapLoopLoseWord(Tail(words), Append(lines, Join(current_line)), <<>>, font, max_width)
                  ELSE WrapLoopLoseWord(Tail(words), Append(lines, word), current_line, font, max_width)

RECURSIVE WrapLoopWordPerLine(_, _, _, _, _)
WrapLoopWordPerLine(words, lines, current_line, font, max_width) ==
    IF words = <<>>
    THEN (IF current_line # <<>> THEN Append(lines, Join(current_line)) ELSE lines)
    ELSE LET word == Head(words)
             test_line == Join(Append(current_line, word))
             text_width == TextWidth(font, test_line)
         IN  IF text_width <= max_width /\ current_line = <<>>
             THEN WrapLoopWordPerLine(Tail(words), lines, Append(current_line, word), font, max_width)
             ELSE IF current_line # <<>>
                  THEN WrapLoopWordPerLine(Tail(words), Append(lines, Join(current_line)), <<word>>, font, max_width)
                  ELSE WrapLoopWordPerLine(Tail(words), Append(lines, word), current_line, font, max_width)

RECURSIVE WrapLoop(_, _, _, _, _)
WrapLoop(words, lines, current_line, font, max_width) ==
    IF words = <<>>
    THEN (IF current_line # <<>> THEN Append(lines, Join(current_line)) ELSE lines)
    ELSE LET word == Head(words)
             test_line == Join(Append(current_line, word))
             text_width == TextWidth(font, test_line)
         IN  IF text_width <= max_width
             THEN WrapLoop(Tail(words), lines, Append(current_line, word), font, max_width)
             ELSE IF current_line # <<>>
                  THEN WrapLoop(Tail(words), Append(lines, Join(current_line)), <<word>>, font, max_width)
                  ELSE WrapLoop(Tail(words), Append(lines, word), current_line, font, max_width)

\* getbbox_raises: the font's getbbox raises; the except clause then returns
\* [text].  With no words getbbox is never called.
WrapText(text, font, max_width, getbbox_raises) ==
    LET words == Split(text)
    IN  IF getbbox_raises /\ words # <<>>
        THEN <<text>>
        ELSE WrapLoop(words, <<>>, <<>>, font, max_width)

WrapArgs == [text : Texts, font : Fonts, max_width : 0..MaxWidth,
             getbbox_raises : BOOLEAN]

InitWrap ==
    /\ op = "_wrap_text"
    /\ pc = "call"
    /\ args \in WrapArgs
    /\ ret = <<>>
    /\ raised = FALSE
    /\ font_cache = <<>>
    /\ default_fonts = <<"default">>
    /\ NoJobs

CallWrapText ==
    /\ op = "_wrap_text"
    /\ pc = "call"
    /\ ret' = WrapText(args.text, args.font, args.max_width, args.getbbox_raises)
    /\ raised' = FALSE
    /\ pc' = "done"
    /\ UNCHANGED <<op, args, font_cache, default_fonts, jobs, temp_dir, processed_dir, videos, requests>>

NextWrap == CallWrapText

SpecWrap == InitWrap /\ [][NextWrap]_vars

WrapDone == op = "_wrap_text" /\ pc = "done"
WrapMeasured == WrapDone /\ ~args.getbbox_raises
WrapWords == Split(args.text)
WrapFits(s) == TextWidth(args.font, s) <= args.max_width

\* C1: every returned line measures at most max_width, except a line that is
\* exactly one word whose own width exceeds max_width.
C1_LinesFit ==
    WrapMeasured =>
        \A i \in 1..Len(ret) :
            \/ WrapFits(ret[i])
            \/ /\ Len(Split(ret[i])) = 1
               /\ ret[i] = Split(ret[i])[1]
               /\ ~WrapFits(ret[i])

C1_Witness ==
    /\ WrapMeasured
    /\ Len(ret) >= 3
    /\ \E i \in 1..Len(ret) : ~WrapFits(ret[i])
    /\ \E i \in 1..Len(ret) : WrapFits(ret[i]) /\ Len(Split(ret[i])) = 1

\* C2 (as stated): every text that fits is returned as the one-element list
\* [text], unchanged, whatever its whitespace and also when it is empty.
C2_FitsUnchanged ==
    (WrapMeasured /\ WrapFits(args.text)) => ret = <<args.text>>

\* C2 (amended): a fitting text with at least one word, single spaces between
\* words and no leading or trailing whitespace is returned as [text]; any other
\* fitting text is returned as the single line ' '.join(text.split()), and a
\* text without words returns the empty list.
C2_FitsNormalised ==
    /\ (WrapDone /\ WrapFits(args.text) /\ WrapWords # <<>>
            /\ args.text = Join(WrapWords)) => ret = <<args.text>>
    /\ (WrapMeasured /\ WrapFits(args.text)) =>
            ret = (IF WrapWords = <<>> THEN <<>> ELSE <<Join(WrapWords)>>)

C2_Witness ==
    /\ WrapMeasured
    /\ Len(WrapWords) >= 2
    /\ args.text = Join(WrapWords)
    /\ args.max_width >= 2
    /\ TextWidth(args.font, args.text) = args.max_width
    /\ ret = <<args.text>>

Occurrences(seq, x) == Cardinality({i \in 1..Len(seq) : seq[i] = x})

\* C3: every word wider than max_width is a line of its own in the result,
\* unmodified, wherever it stands in the text.
C3_WideWordOwnLine ==
    WrapMeasured =>
        \A k \in 1..Len(WrapWords) :
            ~WrapFits(WrapWords[k]) =>
                Occurrences(ret, WrapWords[k]) = Occurrences(WrapWords, WrapWords[k])

C3_Witness ==
    /\ WrapMeasured
    /\ Len(WrapWords) = 3
    /\ WrapFits(WrapWords[1]) /\ ~WrapFits(WrapWords[2]) /\ WrapFits(WrapWords[3])
    /\ ret = WrapWords

LinesNonEmpty == \A i \in 1..Len(ret) : ret[i] # <<>>
LineWords == Flatten([i \in 1..Len(ret) |-> Split(ret[i])])

\* C4 (as stated): the lines are non-empty and partition text.split() in
\* order, and a text that does not fit and has two or more words gives more
\* than one line.
C4_PartitionTextWidth ==
    WrapMeasured =>
        /\ LinesNonEmpty
        /\ LineWords = WrapWords
        /\ (~WrapFits(args.text) /\ Len(WrapWords) >= 2) => Len(ret) > 1

\* C4 (amended): the lines are non-empty and partition text.split() in order,
\* and when the words joined by single spaces do not fit and there are two or
\* more words, more than one line is returned.
C4_Partition ==
    /\ WrapDone => (LinesNonEmpty /\ LineWords = WrapWords)
    /\ (WrapMeasured /\ ~WrapFits(Join(WrapWords)) /\ Len(WrapWords) >= 2)
            => Len(ret) > 1

C4_Witness ==
    /\ WrapMeasured
    /\ Len(WrapWords) = 3
    /\ Len(ret) = 2
    /\ \A i \in 1..Len(ret) : WrapFits(ret[i])
    /\ ~WrapFits(Join(WrapWords))

(***************************************************************************)
(* Python floats.  A float is held as an integer number of quanta, the     *)
(* quantum being 2^-GuardBits seconds; it is representable when it has at  *)
(* most MantBits significant bits.  Every operation returns the exact      *)
(* result rounded to the nearest representable value, ties to even, as     *)
(* IEEE 754 arithmetic does (binary64 has 53 significant bits; the model   *)
(* keeps MantBits of them).                                                *)
(***************************************************************************)
MantBits == 4        \* significant bits of a float
MaxTime == 20        \* largest segment time, in seconds

RECURSIVE Pow2(_)
Pow2(k) == IF k = 0 THEN 1 ELSE 2 * Pow2(k - 1)

GuardBits == MantBits + 1
Quantum == Pow2(GuardBits)          \* quanta per second
Abs(x) == IF x < 0 THEN -x ELSE x

\* the spacing of the floats around the non-negative rational num/den
RECURSIVE UlpFor(_, _, _)
UlpFor(num, den, ulp) ==
    IF num < Pow2(MantBits) * ulp * den THEN ulp ELSE UlpFor(num, den, 2 * ulp)

\* num/den rounded to the nearest integer, ties to even (num >= 0, den > 0)
RoundHalfEven(num, den) ==
    LET q == num \div den
        r == num % den
    IN  IF 2 * r < den THEN q
        ELSE IF 2 * r > den THEN q + 1
        ELSE q + (q % 2)

\* the float nearest to the rational num/den (den > 0)
FRound(num, den) ==
    LET a == Abs(num)
        ulp == UlpFor(a, den, 1)
        m == ulp * RoundHalfEven(a, den * ulp)
    IN  IF num < 0 THEN -m ELSE m

FAdd(x, y) == FRound(x + y, 1)
FSub(x, y) == FRound(x - y, 1)
FMulInt(i, x) == FRound(i * x, 1)       \* int * float
FDivInt(x, n) == FRound(x, n)           \* float / int, n # 0

Representable(x) == FRound(x, 1) = x
Ulp(x) == UlpFor(Abs(x), 1, 1)

\* segment times: the floats among the whole seconds up to MaxTime
TimeValues == {x \in {n * Quantum : n \in 0..MaxTime} : Representable(x)}

(***************************************************************************)
(* VideoProcessor._split_segment_into_words                                *)
(***************************************************************************)
Segments == [start_time : TimeValues, end_time : TimeValues, text : Texts]

\* the body of the try block; exc is TRUE when it raises (ZeroDivisionError
\* at time_per_word when the text has no words)
SplitBodyShifted(segment) ==
    LET words == Split(segment.text)
        word_count == Len(words)
        segment_duration == FSub(segment.end_time, segment.start_time)
    IN  IF word_count = 0
        THEN [exc |-> TRUE, value |-> <<>>]
        ELSE LET time_per_word == FDivInt(segment_duration, word_count)
             IN  [exc |-> FALSE,
                  value |-> [k \in 1..word_count |->
                      [word |-> words[k],
                       start |-> FAdd(segment.start_time, FMulInt(k, time_per_word)),
                       end |-> FAdd(segment.start_time, FMulInt(k + 1, time_per_word))]]]

SplitBodyGap(segment) ==
    LET words == Split(segment.text)
        word_count == Len(words)
        segment_duration == FSub(segment.end_time, segment.start_time)
    IN  IF word_count = 0
        THEN [exc |-> TRUE, value |-> <<>>]
        ELSE LET time_per_word == FDivInt(segment_duration, word_count + 1)
             IN  [exc |-> FALSE,
                  value |-> [k \in 1..word_count |->
                      [word |-> words[k],
                       start |-> FAdd(segment.start_time, FMulInt(k - 1, time_per_word)),
                       end |-> FAdd(segment.start_time, FMulInt(k, time_per_word))]]]

\* entry k (1-based) is the loop's iteration i = k - 1
SplitBody(segment) ==
    LET words == Split(segment.text)
        word_count == Len(words)
        segment_duration == FSub(segment.end_time, segment.start_time)
    IN  IF word_count = 0
        THEN [exc |-> TRUE, value |-> <<>>]
        ELSE LET time_per_word == FDivInt(segment_duration, word_count)
             IN  [exc |-> FALSE,
                  value |-> [k \in 1..word_count |->
                      [word |-> words[k],
                       start |-> FAdd(segment.start_time, FMulInt(k - 1, time_per_word)),
                       end |-> FAdd(segment.start_time, FMulInt(k, time_per_word))]]]

SplitReraise(segment) ==
    LET body == SplitBody(segment)
    IN  IF body.exc
        THEN [value |-> <<>>, raised |-> TRUE]
        ELSE [value |-> body.value, raised |-> FALSE]

\* try: body; except Exception: log and return []
SplitSegmentIntoWords(segment) ==
    LET body == SplitBody(segment)
    IN  IF body.exc
        THEN [value |-> <<>>, raised |-> FALSE]
        ELSE [value |-> body.value, raised |-> FALSE]

InitSplit ==
    /\ op = "_split_segment_into_words"
    /\ pc = "call"
    /\ args \in [segment : Segments]
    /\ ret = <<>>
    /\ raised = FALSE
    /\ font_cache = <<>>
    /\ default_fonts = <<"default">>
    /\ NoJobs

CallSplitSegment ==
    /\ op = "_split_segment_into_words"
    /\ pc = "call"
    /\ LET r == SplitSegmentIntoWords(args.segment)
       IN  ret' = r.value /\ raised' = r.raised
    /\ pc' = "done"
    /\ UNCHANGED <<op, args, font_cache, default_fonts, jobs, temp_dir, processed_dir, videos, requests>>

NextSplit == CallSplitSegment

SpecSplit == InitSplit /\ [][NextSplit]_vars

SplitDone == op = "_split_segment_into_words" /\ pc = "done"
SegS == args.segment.start_time
SegE == args.segment.end_time
SegWords == Split(args.segment.text)
SegN == Len(SegWords)

\* N * (t - S) = i * (E - S): t is exactly S + i*(E-S)/N
ExactAt(t, i) == SegN * (t - SegS) = i * (SegE - SegS)
\* |t - (S + i*(E-S)/N)| < 4 units in the last place of E
NearAt(t, i) ==
    Abs(SegN * (t - SegS) - i * (SegE - SegS)) < 4 * Ulp(SegE) * SegN

EntriesInWordOrder ==
    /\ Len(ret) = SegN
    /\ \A k \in 1..SegN : ret[k].word = SegWords[k]

\* C5 (as stated): N entries in word order with start_i = S + i*(E-S)/N and
\* end_i = S + (i+1)*(E-S)/N.
C5_ExactFormula ==
    (SplitDone /\ SegN >= 1) =>
        /\ EntriesInWordOrder
        /\ \A k \in 1..Len(ret) :
              ExactAt(ret[k].start, k - 1) /\ ExactAt(ret[k].end, k)

\* no step of S + i*((E-S)/N) rounds
NoRounding(i) ==
    /\ Representable(SegE - SegS)
    /\ (SegE - SegS) % SegN = 0
    /\ Representable((SegE - SegS) \div SegN)
    /\ Representable(i * ((SegE - SegS) \div SegN))
    /\ Representable(SegS + i * ((SegE - SegS) \div SegN))

\* C5 (amended): N entries in word order; start_i and end_i are the floating
\* point evaluations of S + i*((E-S)/N) and S + (i+1)*((E-S)/N): for
\* 0 <= S <= E they are within 4 units in the last place of E of the exact
\* values, and equal to them when no step of the evaluation rounds.
C5_RoundedFormula ==
    (SplitDone /\ SegN >= 1) =>
        /\ EntriesInWordOrder
        /\ \A k \in 1..Len(ret) :
              SegS <= SegE =>
                  /\ NearAt(ret[k].start, k - 1)
                  /\ NearAt(ret[k].end, k)
                  /\ NoRounding(k - 1) => ExactAt(ret[k].start, k - 1)
                  /\ NoRounding(k) => ExactAt(ret[k].end, k)

C5_Witness ==
    /\ SplitDone
    /\ SegN = 3
    /\ SegS > 0 /\ SegS < SegE
    /\ \E k \in 1..3 : ~ExactAt(ret[k].end, k)
    /\ \A k \in 1..3 : NearAt(ret[k].start, k - 1) /\ NearAt(ret[k].end, k)

Contiguous == \A k \in 1..(Len(ret) - 1) : ret[k].end = ret[k + 1].start
StartsNonDecreasing == \A k \in 1..(Len(ret) - 1) : ret[k].start <= ret[k + 1].start

C7_NoWordsEmptyList ==
    (SplitDone /\ SegN = 0) => (ret = <<>> /\ ~raised)

C7_Witness ==
    /\ SplitDone
    /\ SegN = 0
    /\ Len(args.segment.text) >= 2
    /\ SegS < SegE
    /\ ret = <<>> /\ ~raised

(***************************************************************************)
(* CaptionRenderer._hex_to_rgb                                             *)
(***************************************************************************)
MaxHexLen == 7       \* longest colour string after its leading '#'s, in characters

\* a colour string: leading '#'s, then characters other than '#'
HexChars == {"1", "a", "A", "g", "-"}
HashPrefixes == {<<>>, <<"#">>, <<"#", "#">>}
HexBodies == SeqsUpTo(HexChars, MaxHexLen)

\* str.lstrip('#'): drops every leading '#'
RECURSIVE LStripHash(_)
LStripHash(s) ==
    IF s # <<>> /\ Head(s) = "#" THEN LStripHash(Tail(s)) ELSE s

\* s[i:i+2] with a 0-based start i: clipped to the string
Slice2(s, i) == SubSeq(s, Min(i + 1, Len(s) + 1), Min(i + 2, Len(s)))

IsHexDigit(c) == c \in {"1", "a", "A"}
DigitValue(c) == IF c = "1" THEN 1 ELSE 10

RECURSIVE DigitsValue(_, _)
DigitsValue(s, acc) ==
    IF s = <<>> THEN acc ELSE DigitsValue(Tail(s), 16 * acc + DigitValue(Head(s)))

\* int(s, 16): an optional sign, then one or more hex digits of either case;
\* anything else raises ValueError (ok = FALSE)
Int16(s) ==
    LET neg == s # <<>> /\ Head(s) = "-"
        digits == IF neg THEN Tail(s) ELSE s
    IN  IF digits # <<>> /\ \A k \in 1..Len(digits) : IsHexDigit(digits[k])
        THEN [ok |-> TRUE,
              value |-> IF neg THEN -DigitsValue(digits, 0) ELSE DigitsValue(digits, 0)]
        ELSE [ok |-> FALSE, value |-> 0]

White == <<255, 255, 255>>

HexToRgbKeepHash(hex_color) ==
    LET stripped == hex_color
        parts == [k \in 1..3 |-> Int16(Slice2(stripped, 2 * (k - 1)))]
    IN  IF \A k \in 1..3 : parts[k].ok
        THEN [value |-> [k \in 1..3 |-> parts[k].value], raised |-> FALSE]
        ELSE [value |-> White, raised |-> FALSE]

\* try: strip, parse the slices at 0, 2, 4; except Exception: return white
HexToRgb(hex_color) ==
    LET stripped == LStripHash(hex_color)
        parts == [k \in 1..3 |-> Int16(Slice2(stripped, 2 * (k - 1)))]
    IN  IF \A k \in 1..3 : parts[k].ok
        THEN [value |-> [k \in 1..3 |-> parts[k].value], raised |-> FALSE]
        ELSE [value |-> White, raised |-> FALSE]

InitHex ==
    /\ op = "_hex_to_rgb"
    /\ pc = "call"
    /\ \E hashes \in HashPrefixes, body \in HexBodies :
          args = [hex_color |-> hashes \o body]
    /\ ret = <<>>
    /\ raised = FALSE
    /\ font_cache = <<>>
    /\ default_fonts = <<"default">>
    /\ NoJobs

CallHexToRgb ==
    /\ op = "_hex_to_rgb"
    /\ pc = "call"
    /\ LET r == HexToRgb(args.hex_color)
       IN  ret' = r.value /\ raised' = r.raised
    /\ pc' = "done"
    /\ UNCHANGED <<op, args, font_cache, default_fonts, jobs, temp_dir, processed_dir, videos, requests>>

NextHex == CallHexToRgb

SpecHex == InitHex /\ [][NextHex]_vars

HexDone == op = "_hex_to_rgb" /\ pc = "done"
AllHexDigits(s) == \A k \in 1..Len(s) : IsHexDigit(s[k])
\* the string without its optional single leading '#'
HexBody == IF args.hex_color # <<>> /\ Head(args.hex_color) = "#"
           THEN Tail(args.hex_color) ELSE args.hex_color
WellFormed == Len(HexBody) = 6 /\ AllHexDigits(HexBody)
PairValue(s, k) == 16 * DigitValue(s[2 * k - 1]) + DigitValue(s[2 * k])

\* C8: six hex digits of either case, with or without a leading '#', give the
\* triple of the three digit pairs, each in 0..255, the same for both forms.
C8_SixDigits ==
    (HexDone /\ WellFormed) =>
        /\ ~raised
        /\ ret = [k \in 1..3 |-> PairValue(HexBody, k)]
        /\ \A k \in 1..3 : ret[k] \in 0..255
        /\ ret = HexToRgb(HexBody).value
        /\ ret = HexToRgb(<<"#">> \o HexBody).value

C8_Witness ==
    /\ HexDone
    /\ WellFormed
    /\ Head(args.hex_color) = "#"
    /\ "a" \in {HexBody[k] : k \in 1..6} /\ "A" \in {HexBody[k] : k \in 1..6}
    /\ ret[1] # ret[2] /\ ret[2] # ret[3] /\ ret[1] # ret[3]

\* C9: any string that is not exactly six hex digits after an optional leading
\* '#' gives white.
C9_MalformedWhite ==
    (HexDone /\ ~WellFormed) => ret = White

\* C10, colour half: for every colour string a triple is returned and nothing
\* is raised to the caller.
HexNeverRaises ==
    HexDone => (~raised /\ Len(ret) = 3)

(***************************************************************************)
(* CaptionRenderer._load_font and the font cache                           *)
(***************************************************************************)
FontTypes == {"Arial", "default", "Roboto"}
FontSizes == {0, 24}
SystemFontPath == "/usr/share/fonts/truetype/dejavu/DejaVuSans.ttf"

\* str.lower() on the font families of the model
Lower(font_type) == IF font_type = "Arial" THEN "arial" ELSE font_type

\* ImageFont.load_default()
DefaultFont == [kind |-> "default", path |-> "", size |-> 0]
\* ImageFont.truetype(path, size)
TrueTypeFont(path, size) == [kind |-> "truetype", path |-> path, size |-> size]

\* f"{font_type}_{font_size}"
CacheKey(font_type, font_size) == <<font_type, font_size>>

CachePut(cache, key, font) ==
    [k \in (DOMAIN cache) \cup {key} |-> IF k = key THEN font ELSE cache[k]]

\* the try block on a cache miss: found is what _find_font_path returned for
\* a custom family (a path or none); truetype raises when the file cannot be
\* loaded (truetype_ok = FALSE) or the size is not positive
LoadFontTry(defaults, font_type, font_size, found, truetype_ok) ==
    LET custom == Lower(font_type) # "default" /\ Lower(font_type) # "arial"
        font_path == IF custom
                     THEN (IF found THEN font_type ELSE "")
                     ELSE (IF defaults[1] # "default" THEN defaults[1] ELSE "")
    IN  IF font_path # ""
        THEN (IF truetype_ok /\ font_size > 0
              THEN [exc |-> FALSE, font |-> TrueTypeFont(font_path, font_size)]
              ELSE [exc |-> TRUE, font |-> DefaultFont])
        ELSE [exc |-> FALSE, font |-> DefaultFont]

LoadFontReraise(cache, defaults, font_type, font_size, found, truetype_ok) ==
    LET cache_key == CacheKey(font_type, font_size)
        try == LoadFontTry(defaults, font_type, font_size, found, truetype_ok)
    IN  IF cache_key \in DOMAIN cache
        THEN [font |-> cache[cache_key], cache |-> cache, raised |-> FALSE]
        ELSE IF try.exc
             THEN [font |-> DefaultFont, cache |-> cache, raised |-> TRUE]
             ELSE [font |-> try.font, cache |-> CachePut(cache, cache_key, try.font),
                   raised |-> FALSE]

\* cache hit: the cached font; miss: the loaded font, or the default font
\* from the except clause; either is stored under the key
LoadFont(cache, defaults, font_type, font_size, found, truetype_ok) ==
    LET cache_key == CacheKey(font_type, font_size)
        try == LoadFontTry(defaults, font_type, font_size, found, truetype_ok)
        font == IF try.exc THEN DefaultFont ELSE try.font
    IN  IF cache_key \in DOMAIN cache
        THEN [font |-> cache[cache_key], cache |-> cache, raised |-> FALSE]
        ELSE [font |-> font, cache |-> CachePut(cache, cache_key, font),
              raised |-> FALSE]

FontOps == {"__init__", "_load_font", "cleanup_font_cache"}

\* CaptionRenderer(): empty cache; default_fonts holds the system fonts that
\* exist, or "default" when none does
InitFont ==
    /\ op = "__init__"
    /\ pc = "done"
    /\ args = <<>>
    /\ ret = <<>>
    /\ raised = FALSE
    /\ font_cache = <<>>
    /\ default_fonts \in {<<"default">>, <<SystemFontPath>>}
    /\ NoJobs

CallLoadFont ==
    /\ op \in FontOps
    /\ \E font_type \in FontTypes, font_size \in FontSizes,
          found \in BOOLEAN, truetype_ok \in BOOLEAN :
          LET r == LoadFont(font_cache, default_fonts, font_type, font_size,
                            found, truetype_ok)
          IN  /\ op' = "_load_font"
              /\ args' = [font_type |-> font_type, font_size |-> font_size,
                          found |-> found, truetype_ok |-> truetype_ok]
              /\ ret' = r.font
              /\ raised' = r.raised
              /\ font_cache' = r.cache
    /\ pc' = "done"
    /\ UNCHANGED <<default_fonts, jobs, temp_dir, processed_dir, videos, requests>>

CleanupFontCache ==
    /\ op \in FontOps
    /\ op' = "cleanup_font_cache"
    /\ args' = <<>>
    /\ ret' = <<>>
    /\ raised' = FALSE
    /\ font_cache' = <<>>
    /\ pc' = "done"
    /\ UNCHANGED <<default_fonts, jobs, temp_dir, processed_dir, videos, requests>>

NextFont == CallLoadFont \/ CleanupFontCache

SpecFont == InitFont /\ [][NextFont]_vars

(***************************************************************************)
(* The two fallbacks of the renderer together: a colour string being       *)
(* parsed, or a renderer loading fonts.                                    *)
(***************************************************************************)
InitFallback == InitHex \/ InitFont

NextFallback == CallHexToRgb \/ CallLoadFont \/ CleanupFontCache

SpecFallback == InitFallback /\ [][NextFallback]_vars

IsFont(f) == f = DefaultFont \/ (f.kind = "truetype" /\ f.size > 0 /\ f.path # "")

\* the call just made missed the cache and could not load the requested font
LoadFailed ==
    /\ CacheKey(args'.font_type, args'.font_size) \notin DOMAIN font_cache
    /\ LET custom == Lower(args'.font_type) \notin {"default", "arial"}
       IN  \/ custom /\ ~args'.found
           \/ ~custom /\ default_fonts[1] = "default"
           \/ ~args'.truetype_ok
           \/ args'.font_size <= 0

\* C10: neither fallback raises to the caller: _hex_to_rgb returns a triple
\* for every colour string, and _load_font returns a font for every family
\* and size, the default font when the font is not found or fails to load;
\* the font returned is the one the cache then holds for the key.
C10_FallbacksNeverRaise ==
    [][/\ (op' = "_hex_to_rgb" /\ pc' = "done") => (~raised' /\ Len(ret') = 3)
       /\ op' = "_load_font" =>
            /\ ~raised'
            /\ IsFont(ret')
            /\ LoadFailed => ret' = DefaultFont
            /\ CacheKey(args'.font_type, args'.font_size) \in DOMAIN font_cache'
            /\ font_cache'[CacheKey(args'.font_type, args'.font_size)] = ret'
      ]_vars

C10_Witness ==
    /\ op = "_load_font"
    /\ args.font_type = "Roboto" /\ args.found /\ ~args.truetype_ok
    /\ ret = DefaultFont
    /\ ~raised
    /\ \E k \in DOMAIN font_cache : font_cache[k].kind = "truetype"

(***************************************************************************)
(* Position resolvers: CaptionRenderer.get_caption_position and            *)
(* VideoProcessor._calculate_caption_position                              *)
(***************************************************************************)
MaxHeight == 6       \* largest video or caption height, in pixels
MaxPadding == 3      \* largest padding, in pixels

\* position strings, recognised in any letter case or not at all
PositionStrings == {"top", "TOP", "center", "Center", "bottom", "left", ""}

\* str.lower() on the position strings of the model
LowerPosition(position) ==
    CASE position = "TOP" -> "top"
      [] position = "Center" -> "center"
      [] OTHER -> position

GetCaptionPositionClamped(video_height, caption_height, position, padding) ==
    IF LowerPosition(position) = "top" THEN padding
    ELSE IF LowerPosition(position) = "center"
         THEN (video_height - caption_height) \div 2
         ELSE IF video_height - caption_height - padding < 0 THEN 0
              ELSE video_height - caption_height - padding

\* a position that is not a str (None): position.lower() raises
\* AttributeError, which the except clause of either resolver catches
NotAString == "<None>"
PositionInputs == PositionStrings \cup {NotAString}

\* CaptionRenderer.get_caption_position; // is floor division; the except
\* clause returns the bottom position with a padding of 20
GetCaptionPosition(video_height, caption_height, position, padding) ==
    IF position = NotAString THEN video_height - caption_height - 20
    ELSE IF LowerPosition(position) = "top" THEN padding
    ELSE IF LowerPosition(position) = "center"
         THEN (video_height - caption_height) \div 2
         ELSE video_height - caption_height - padding

CalculateCaptionPositionFixedPadding(video_height, caption_height, position, padding) ==
    IF position = NotAString THEN video_height - caption_height - padding
    ELSE IF LowerPosition(position) = "top" THEN padding
    ELSE IF LowerPosition(position) = "center"
         THEN (video_height - caption_height) \div 2
         ELSE video_height - caption_height - 20

\* VideoProcessor._calculate_caption_position; the except clause returns the
\* bottom position with the padding of the call
CalculateCaptionPosition(video_height, caption_height, position, padding) ==
    IF position = NotAString THEN video_height - caption_height - padding
    ELSE IF LowerPosition(position) = "top" THEN padding
    ELSE IF LowerPosition(position) = "center"
         THEN (video_height - caption_height) \div 2
         ELSE video_height - caption_height - padding

PositionOps == {"get_caption_position", "_calculate_caption_position"}

InitPosition ==
    /\ op \in PositionOps
    /\ pc = "call"
    /\ args \in [video_height : (-MaxHeight)..MaxHeight,
                 caption_height : (-MaxHeight)..MaxHeight,
                 position : PositionInputs,
                 padding : (-MaxPadding)..MaxPadding]
    /\ ret = <<>>
    /\ raised = FALSE
    /\ font_cache = <<>>
    /\ default_fonts = <<"default">>
    /\ NoJobs

CallGetCaptionPosition ==
    /\ op = "get_caption_position"
    /\ pc = "call"
    /\ ret' = GetCaptionPosition(args.video_height, args.caption_height,
                                 args.position, args.padding)
    /\ raised' = FALSE
    /\ pc' = "done"
    /\ UNCHANGED <<op, args, font_cache, default_fonts, jobs, temp_dir, processed_dir, videos, requests>>

CallCalculateCaptionPosition ==
    /\ op = "_calculate_caption_position"
    /\ pc = "call"
    /\ ret' = CalculateCaptionPosition(args.video_height, args.caption_height,
                                       args.position, args.padding)
    /\ raised' = FALSE
    /\ pc' = "done"
    /\ UNCHANGED <<op, args, font_cache, default_fonts, jobs, temp_dir, processed_dir, videos, requests>>

NextPosition == CallGetCaptionPosition \/ CallCalculateCaptionPosition

SpecPosition == InitPosition /\ [][NextPosition]_vars

PositionDone == op = "get_caption_position" /\ pc = "done"

\* C11: top gives padding, center gives floor((video_height - caption_height)
\* / 2), bottom and every unrecognised mode give video_height - caption_height
\* - padding; the result is not clamped to the frame.
C11_PositionResolver ==
    PositionDone =>
        LET free == args.video_height - args.caption_height
        IN  /\ ~raised
            /\ args.position \in {"top", "TOP"} => ret = args.padding
            /\ args.position \in {"center", "Center"} =>
                  (2 * ret <= free /\ free < 2 * ret + 2)
            /\ args.position \in {"bottom", "left", ""} => ret = free - args.padding

C11_Witness ==
    /\ PositionDone
    /\ args.position = "left"
    /\ args.caption_height > args.video_height
    /\ args.video_height > 0
    /\ args.padding > 0
    /\ ret < 0

(***************************************************************************)
(* CaptionStyle: pydantic validates the Field constraints at construction  *)
(***************************************************************************)
MinFontSize == 8
MaxFontSize == 72
MinStrokeWidth == 0
MaxStrokeWidth == 10
MinPadding == 0
MaxPaddingField == 50

\* values at, inside and just outside each range
FontSizeInputs == {MinFontSize - 1, MinFontSize, 24, MaxFontSize, MaxFontSize + 1}
StrokeWidthInputs == {MinStrokeWidth - 1, MinStrokeWidth, 2, MaxStrokeWidth, MaxStrokeWidth + 1}
PaddingInputs == {MinPadding - 1, MinPadding, 10, MaxPaddingField, MaxPaddingField + 1}

StyleInputs == [font_size : FontSizeInputs, stroke_width : StrokeWidthInputs,
                padding : PaddingInputs, position : PositionStrings]

CaptionStyleNoUpperBound(fields) ==
    IF /\ fields.font_size >= MinFontSize
       /\ fields.stroke_width >= MinStrokeWidth
       /\ fields.padding >= MinPadding
    THEN [value |-> fields, raised |-> FALSE]
    ELSE [value |-> <<>>, raised |-> TRUE]

\* CaptionStyle(**fields): ge/le on font_size, stroke_width and padding;
\* position is a plain str; a violated constraint raises ValidationError
CaptionStyle(fields) ==
    IF /\ fields.font_size >= MinFontSize /\ fields.font_size <= MaxFontSize
       /\ fields.stroke_width >= MinStrokeWidth /\ fields.stroke_width <= MaxStrokeWidth
       /\ fields.padding >= MinPadding /\ fields.padding <= MaxPaddingField
    THEN [value |-> fields, raised |-> FALSE]
    ELSE [value |-> <<>>, raised |-> TRUE]

InitStyle ==
    /\ op = "CaptionStyle"
    /\ pc = "call"
    /\ args \in StyleInputs
    /\ ret = <<>>
    /\ raised = FALSE
    /\ font_cache = <<>>
    /\ default_fonts = <<"default">>
    /\ NoJobs

ConstructCaptionStyle ==
    /\ op = "CaptionStyle"
    /\ pc = "call"
    /\ LET r == CaptionStyle(args)
       IN  ret' = r.value /\ raised' = r.raised
    /\ pc' = "done"
    /\ UNCHANGED <<op, args, font_cache, default_fonts, jobs, temp_dir, processed_dir, videos, requests>>

NextStyle == ConstructCaptionStyle

SpecStyle == InitStyle /\ [][NextStyle]_vars

StyleDone == op = "CaptionStyle" /\ pc = "done"
\* a style object exists: construction returned it
StyleExists == StyleDone /\ ~raised

\* C12: construction succeeds exactly when font_size is in [8,72],
\* stroke_width in [0,10] and padding in [0,50]; otherwise it fails and no
\* style object exists, so every style object has its numeric fields in range.
C12_NumericRanges ==
    StyleDone =>
        /\ ~raised <=> /\ args.font_size \in 8..72
                       /\ args.stroke_width \in 0..10
                       /\ args.padding \in 0..50
        /\ ~raised => /\ ret = args
                      /\ ret.font_size \in 8..72
                      /\ ret.stroke_width \in 0..10
                      /\ ret.padding \in 0..50
        /\ raised => ret = <<>>

C12_Witness ==
    /\ StyleDone
    /\ args.font_size = 73 /\ args.stroke_width = 10 /\ args.padding = 0
    /\ raised

\* C13: a position other than top, center, bottom is rejected at
\* construction; every style object has position in {top, center, bottom}.
C13_PositionValidated ==
    StyleDone =>
        /\ args.position \notin {"top", "center", "bottom"} => raised
        /\ StyleExists => ret.position \in {"top", "center", "bottom"}

(***************************************************************************)
(* Video jobs.  A job is one uploaded video going through                  *)
(* process_video_task (Celery worker) or _process_video_async (debug       *)
(* mode, blocking work in executor threads), or one direct call of         *)
(* create_word_highlighted_video.  All jobs share the VideoProcessor's     *)
(* temp_dir, the processed directory and the renderer's font cache.        *)
(***************************************************************************)
MaxSegments == 2     \* longest transcript, in segments

\* the variables of a single method call, which jobs leave alone
call == <<op, pc, args, ret, raised>>

VideoIds == {"v1", "v2"}

SegHello == [start_time |-> 0, end_time |-> 2 * Quantum,
             text |-> <<"a", " ", "b">>]
\* starts with SegHello and overlaps it
SegOverlap == [start_time |-> 0, end_time |-> Quantum, text |-> <<"b">>]
\* wraps to two lines; its duration is not a float of MantBits bits
SegLong == [start_time |-> Quantum, end_time |-> 18 * Quantum,
            text |-> <<"a", " ", "b", " ", "a">>]
SegReversed == [start_time |-> 2 * Quantum, end_time |-> Quantum,
                text |-> <<"a">>]
SegEmpty == [start_time |-> 0, end_time |-> 2 * Quantum, text |-> <<>>]

JobSegments == {SegHello, SegOverlap, SegLong, SegReversed, SegEmpty}
Transcripts == SeqsUpTo(JobSegments, MaxSegments)

Videos == [width : {5}, height : {100}, has_audio : BOOLEAN]

JobStyles == [font_type : {"Arial"}, font_size : {24}, stroke_width : {2},
              padding : {10}, position : {"bottom", "center"}]

JobKinds == {[runner |-> "process_video_task", builder |-> "create_captioned_video"],
             [runner |-> "_process_video_async", builder |-> "create_captioned_video"],
             [runner |-> "direct", builder |-> "create_word_highlighted_video"]}

NoFont == [kind |-> "none"]
NoImage == [height |-> 0, lines |-> <<>>, job |-> "", seg |-> 0, word |-> 0]
\* the base video clip, the first layer of a composite
BaseVideo == [layer |-> "video"]

AudioFile(j) == <<j, "_audio.wav">>
OutputFile(j) == <<j, "_captioned.mp4">>

\* the document inserted by upload_video and the locals of the job; a direct
\* call starts in the builder with its segment list
NewJob(runner, builder, video, caption_style, transcript) ==
    [runner |-> runner, builder |-> builder, video |-> video,
     caption_style |-> caption_style, transcript |-> transcript,
     pc |-> IF runner = "direct" THEN "open_video" ELSE "extract_audio",
     status |-> "pending", error_messages |-> <<>>, log |-> {},
     caption_segments |-> IF runner = "direct" THEN transcript ELSE <<>>,
     iterable |-> TRUE,
     k |-> 0, word_timings |-> <<>>, w |-> 0,
     font |-> NoFont, caption_img |-> NoImage,
     caption_clips |-> <<>>, final_video |-> <<>>]

JobInputs ==
    {NewJob(kind.runner, kind.builder, video, style, transcript) :
        kind \in JobKinds, video \in Videos, style \in JobStyles,
        transcript \in Transcripts}

\* an exception leaves the builder (logged and re-raised) and reaches the
\* runner's except clause: the task state or the document becomes failed
\* with the error message; a direct caller sees the exception
Raise(job, site) ==
    [job EXCEPT !.pc = "done",
                !.status = IF job.runner = "direct" THEN "raised" ELSE "failed",
                !.error_messages = Append(@, site),
                !.log = @ \cup {site}]

\* status processing, then extract_audio: the audio file is written, or
\* ValueError when the video has no audio track
ExtractAudio(j) ==
    /\ jobs[j].pc = "extract_audio"
    /\ LET job == [jobs[j] EXCEPT !.status = "processing"]
       IN  IF job.video.has_audio
           THEN /\ processed_dir' = processed_dir \cup {AudioFile(j)}
                /\ jobs' = [jobs EXCEPT ![j] = [job EXCEPT !.pc = "transcribe_audio"]]
           ELSE /\ processed_dir' = processed_dir
                /\ jobs' = [jobs EXCEPT ![j] = Raise(job, "extract_audio")]
    /\ UNCHANGED <<call, font_cache, default_fonts, temp_dir, videos, requests>>

\* transcribe_audio is a coroutine function: _process_video_async awaits it
\* and gets the segments (or its exception); process_video_task calls it
\* without await and gets a coroutine object, which is not iterable.  Then
\* the style object is built from the style dict.
TranscribeAudio(j) ==
    /\ jobs[j].pc = "transcribe_audio"
    /\ \E ok \in BOOLEAN :
          LET job == jobs[j]
              style == CaptionStyle(job.caption_style)
          IN  jobs' = [jobs EXCEPT ![j] =
                  IF job.runner = "_process_video_async" /\ ~ok
                  THEN Raise(job, "transcribe_audio")
                  ELSE IF style.raised
                  THEN Raise(job, "CaptionStyle")
                  ELSE IF job.runner = "_process_video_async"
                  THEN [job EXCEPT !.caption_segments = job.transcript,
                                   !.pc = "open_video"]
                  ELSE [job EXCEPT !.iterable = FALSE, !.pc = "open_video"]]
    /\ UNCHANGED <<call, font_cache, default_fonts, temp_dir, processed_dir, videos, requests>>

(***************************************************************************)
(* The renderer as the builders use it                                     *)
(***************************************************************************)
\* getbbox of a loaded font: a glyph of a TrueType font advances one pixel,
\* a glyph of PIL's built-in default font two
GlyphAdvances(font) ==
    [c \in TextChars \cup {"A"} |-> IF font.kind = "truetype" THEN 1 ELSE 2]

\* _load_font after a miss: the font that is loaded (a new object, named by
\* the call that created it) and then stored under the key
LoadedFont(j, job, defaults) ==
    LET try == LoadFontTry(defaults, job.caption_style.font_type,
                           job.caption_style.font_size, TRUE, TRUE)
        font == IF try.exc THEN DefaultFont ELSE try.font
    IN  [kind |-> font.kind, path |-> font.path, size |-> font.size,
         obj |-> <<j, job.k, job.w>>]

\* the image of create_caption_image / create_word_highlighted_caption:
\* max_width = int(video_width * 0.8), one row of font_size + 4 pixels per
\* wrapped line between two paddings
CaptionImage(j, job, font, getbbox_raises) ==
    LET text == job.caption_segments[job.k].text
        max_width == (job.video.width * 4) \div 5
        lines == WrapText(text, GlyphAdvances(font), max_width, getbbox_raises)
        line_height == job.caption_style.font_size + 4
    IN  [height |-> Len(lines) * line_height + job.caption_style.padding * 2,
         lines |-> lines, job |-> j, seg |-> job.k, word |-> job.w]

\* _load_font, first half: the cache is looked up; a miss is remembered by
\* the calling thread, which goes on to load the font
LoadFontLookup(j) ==
    /\ jobs[j].pc = "load_font"
    /\ LET key == CacheKey(jobs[j].caption_style.font_type,
                           jobs[j].caption_style.font_size)
       IN  jobs' = [jobs EXCEPT ![j].font =
                        IF key \in DOMAIN font_cache THEN font_cache[key] ELSE NoFont,
                                ![j].pc = "render"]
    /\ UNCHANGED <<call, font_cache, default_fonts, temp_dir, processed_dir, videos, requests>>

\* the rest of the renderer call: after a miss the font is loaded and stored;
\* the text is wrapped (a getbbox failure there is swallowed and logged); the
\* image is drawn (a failure there is logged and re-raised)
RenderStep(j, site) ==
    /\ jobs[j].pc = "render"
    /\ \E getbbox_raises \in BOOLEAN, draw_raises \in BOOLEAN :
          LET job == jobs[j]
              key == CacheKey(job.caption_style.font_type, job.caption_style.font_size)
              miss == job.font = NoFont
              font == IF miss THEN LoadedFont(j, job, default_fonts) ELSE job.font
              img == CaptionImage(j, job, font, getbbox_raises)
              swallowed == getbbox_raises /\ Split(job.caption_segments[job.k].text) # <<>>
              logged == IF swallowed
                        THEN [job EXCEPT !.font = font, !.log = @ \cup {"_wrap_text"}]
                        ELSE [job EXCEPT !.font = font]
          IN  /\ font_cache' = IF miss THEN CachePut(font_cache, key, font)
                               ELSE font_cache
              /\ jobs' = [jobs EXCEPT ![j] =
                      IF draw_raises
                      THEN Raise(logged, site)
                      ELSE [logged EXCEPT !.caption_img = img, !.pc = "save"]]
    /\ UNCHANGED <<call, default_fonts, temp_dir, processed_dir, videos, requests>>

\* f"caption_{start}.png" / f"highlight_{start}.png" in temp_dir: distinct
\* floats have distinct names
TempName(prefix, start) == <<prefix, start>>

WriteFile(dir, name, content) ==
    [n \in (DOMAIN dir) \cup {name} |-> IF n = name THEN content ELSE dir[n]]

\* caption_img.save(temp_img_path)
SaveStep(j, name) ==
    /\ jobs[j].pc = "save"
    /\ temp_dir' = WriteFile(temp_dir, name, jobs[j].caption_img)
    /\ jobs' = [jobs EXCEPT ![j].pc = "clip"]
    /\ UNCHANGED <<call, font_cache, default_fonts, processed_dir, videos, requests>>

OverlayEventUntilEnd(bitmap, start, end, y) ==
    [bitmap |-> bitmap, start |-> start, duration |-> end,
     pos |-> <<"center", y>>]

OverlayEventAtZero(bitmap, start, end, y) ==
    [bitmap |-> bitmap, start |-> 0, duration |-> FSub(end, start),
     pos |-> <<"center", y>>]

\* ImageClip(path, duration=end - start).set_start(start)
\*     .set_position(('center', y)): the bitmap is read from the file when
\* the clip is built
OverlayEvent(bitmap, start, end, y) ==
    [bitmap |-> bitmap, start |-> start, duration |-> FSub(end, start),
     pos |-> <<"center", y>>]

\* the clip of the saved image is built and appended; ImageClip raises when
\* the file is gone
ClipOrRaise(job, name, start, end, site) ==
    IF name \in DOMAIN temp_dir
    THEN [job EXCEPT !.caption_clips = Append(@,
              OverlayEvent(temp_dir[name], start, end,
                  CalculateCaptionPosition(job.video.height, job.caption_img.height,
                      job.caption_style.position, job.caption_style.padding)))]
    ELSE Raise(job, site)

\* CompositeVideoClip([video] + caption_clips) and write_videofile: the
\* output file is written; when encoding fails the exception is logged and
\* re-raised, and the encoder may leave a partial file behind
WriteStep(j, site) ==
    /\ jobs[j].pc = "write"
    /\ \E encode_ok \in BOOLEAN, partial \in BOOLEAN :
          LET job == [jobs[j] EXCEPT !.final_video = <<BaseVideo>> \o jobs[j].caption_clips]
          IN  IF encode_ok
              THEN /\ processed_dir' = processed_dir \cup {OutputFile(j)}
                   /\ jobs' = [jobs EXCEPT ![j] =
                          IF job.runner = "direct"
                          THEN [job EXCEPT !.pc = "done", !.status = "returned"]
                          ELSE [job EXCEPT !.pc = "finish"]]
              ELSE /\ processed_dir' = IF partial
                                       THEN processed_dir \cup {OutputFile(j)}
                                       ELSE processed_dir
                   /\ jobs' = [jobs EXCEPT ![j] = Raise(job, site)]
    /\ UNCHANGED <<call, font_cache, default_fonts, temp_dir, videos, requests>>

(***************************************************************************)
(* VideoProcessor.create_captioned_video                                   *)
(***************************************************************************)
\* the video is opened and the loop over the segments starts; iterating a
\* coroutine object raises TypeError
OpenVideo(j) ==
    /\ jobs[j].pc = "open_video"
    /\ jobs[j].builder = "create_captioned_video"
    /\ LET job == jobs[j]
       IN  jobs' = [jobs EXCEPT ![j] =
               IF ~job.iterable THEN Raise(job, "create_captioned_video")
               ELSE IF job.caption_segments = <<>> THEN [job EXCEPT !.pc = "write"]
               ELSE [job EXCEPT !.k = 1, !.pc = "load_font"]]
    /\ UNCHANGED <<call, font_cache, default_fonts, temp_dir, processed_dir, videos, requests>>

CreateCaptionImage(j) ==
    /\ jobs[j].builder = "create_captioned_video"
    /\ RenderStep(j, "create_caption_image")

SaveCaptionImage(j) ==
    /\ jobs[j].builder = "create_captioned_video"
    /\ SaveStep(j, TempName("caption", jobs[j].caption_segments[jobs[j].k].start_time))

\* the clip of segment k is appended and the loop goes to the next segment
MakeCaptionClip(j) ==
    /\ jobs[j].pc = "clip"
    /\ jobs[j].builder = "create_captioned_video"
    /\ LET job == jobs[j]
           segment == job.caption_segments[job.k]
           r == ClipOrRaise(job, TempName("caption", segment.start_time),
                            segment.start_time, segment.end_time,
                            "create_captioned_video")
       IN  jobs' = [jobs EXCEPT ![j] =
               IF r.pc = "done" THEN r
               ELSE IF job.k < Len(job.caption_segments)
               THEN [r EXCEPT !.k = job.k + 1, !.pc = "load_font"]
               ELSE [r EXCEPT !.pc = "write"]]
    /\ UNCHANGED <<call, font_cache, default_fonts, temp_dir, processed_dir, videos, requests>>

WriteVideo(j) ==
    /\ jobs[j].builder = "create_captioned_video"
    /\ WriteStep(j, "create_captioned_video")

(***************************************************************************)
(* VideoProcessor.create_word_highlighted_video                            *)
(***************************************************************************)
OpenVideoHighlighted(j) ==
    /\ jobs[j].pc = "open_video"
    /\ jobs[j].builder = "create_word_highlighted_video"
    /\ LET job == jobs[j]
       IN  jobs' = [jobs EXCEPT ![j] =
               IF job.caption_segments = <<>> THEN [job EXCEPT !.pc = "write"]
               ELSE [job EXCEPT !.k = 1, !.pc = "split_words"]]
    /\ UNCHANGED <<call, font_cache, default_fonts, temp_dir, processed_dir, videos, requests>>

\* the loop goes to the next segment, or leaves the loop after the last one
NextSegmentHighlighted(job) ==
    IF job.k < Len(job.caption_segments)
    THEN [job EXCEPT !.k = job.k + 1, !.pc = "split_words"]
    ELSE [job EXCEPT !.pc = "write"]

\* word_timings of segment k; _split_segment_into_words logs its failure
\* and returns [], and the inner loop then has nothing to do
SplitWords(j) ==
    /\ jobs[j].pc = "split_words"
    /\ jobs[j].builder = "create_word_highlighted_video"
    /\ LET job == jobs[j]
           segment == job.caption_segments[job.k]
           word_timings == SplitSegmentIntoWords(segment).value
           logged == IF SplitBody(segment).exc
                     THEN [job EXCEPT !.log = @ \cup {"_split_segment_into_words"}]
                     ELSE job
       IN  jobs' = [jobs EXCEPT ![j] =
               IF word_timings = <<>>
               THEN NextSegmentHighlighted([logged EXCEPT !.word_timings = <<>>, !.w = 0])
               ELSE [logged EXCEPT !.word_timings = word_timings, !.w = 1,
                                   !.pc = "load_font"]]
    /\ UNCHANGED <<call, font_cache, default_fonts, temp_dir, processed_dir, videos, requests>>

CreateWordHighlightedCaption(j) ==
    /\ jobs[j].builder = "create_word_highlighted_video"
    /\ RenderStep(j, "create_word_highlighted_caption")

SaveHighlightImage(j) ==
    /\ jobs[j].builder = "create_word_highlighted_video"
    /\ SaveStep(j, TempName("highlight", jobs[j].word_timings[jobs[j].w].start))

\* the clip of word w is appended and the loops go on
MakeHighlightClip(j) ==
    /\ jobs[j].pc = "clip"
    /\ jobs[j].builder = "create_word_highlighted_video"
    /\ LET job == jobs[j]
           word_timing == job.word_timings[job.w]
           r == ClipOrRaise(job, TempName("highlight", word_timing.start),
                            word_timing.start, word_timing.end,
                            "create_word_highlighted_video")
       IN  jobs' = [jobs EXCEPT ![j] =
               IF r.pc = "done" THEN r
               ELSE IF job.w < Len(job.word_timings)
               THEN [r EXCEPT !.w = job.w + 1, !.pc = "load_font"]
               ELSE NextSegmentHighlighted(r)]
    /\ UNCHANGED <<call, font_cache, default_fonts, temp_dir, processed_dir, videos, requests>>

WriteVideoHighlighted(j) ==
    /\ jobs[j].builder = "create_word_highlighted_video"
    /\ WriteStep(j, "create_word_highlighted_video")

(***************************************************************************)
(* The end of a job, and the worker's shutdown                             *)
(***************************************************************************)
\* the builder returned: the task returns its result, or the document is
\* set to completed
Finish(j) ==
    /\ jobs[j].pc = "finish"
    /\ jobs' = [jobs EXCEPT ![j].pc = "done", ![j].status = "completed"]
    /\ UNCHANGED <<call, font_cache, default_fonts, temp_dir, processed_dir, videos, requests>>

\* worker_shutdown_handler: cleanup_temp_files unlinks every file in
\* temp_dir, whichever job wrote it
WorkerShutdown ==
    /\ temp_dir # <<>>
    /\ temp_dir' = <<>>
    /\ UNCHANGED <<call, font_cache, default_fonts, jobs, processed_dir, videos, requests>>

\* one job at a time
InitJob ==
    /\ op = "process_video"
    /\ pc = "done"
    /\ args = <<>>
    /\ ret = <<>>
    /\ raised = FALSE
    /\ font_cache = <<>>
    /\ default_fonts = <<SystemFontPath>>
    /\ jobs \in [{"v1"} -> JobInputs]
    /\ temp_dir = <<>>
    /\ processed_dir = {}
    /\ videos = <<>>
    /\ requests = <<>>

NextJob ==
    \/ \E j \in DOMAIN jobs : ExtractAudio(j)
    \/ \E j \in DOMAIN jobs : TranscribeAudio(j)
    \/ \E j \in DOMAIN jobs : OpenVideo(j)
    \/ \E j \in DOMAIN jobs : LoadFontLookup(j)
    \/ \E j \in DOMAIN jobs : CreateCaptionImage(j)
    \/ \E j \in DOMAIN jobs : SaveCaptionImage(j)
    \/ \E j \in DOMAIN jobs : MakeCaptionClip(j)
    \/ \E j \in DOMAIN jobs : WriteVideo(j)
    \/ \E j \in DOMAIN jobs : OpenVideoHighlighted(j)
    \/ \E j \in DOMAIN jobs : SplitWords(j)
    \/ \E j \in DOMAIN jobs : CreateWordHighlightedCaption(j)
    \/ \E j \in DOMAIN jobs : SaveHighlightImage(j)
    \/ \E j \in DOMAIN jobs : MakeHighlightClip(j)
    \/ \E j \in DOMAIN jobs : WriteVideoHighlighted(j)
    \/ \E j \in DOMAIN jobs : Finish(j)
    \/ WorkerShutdown

SpecJob == InitJob /\ [][NextJob]_vars

JobDone(j) == jobs[j].pc = "done"

(***************************************************************************)
(* Claims about failures in a job                                          *)
(***************************************************************************)
\* the failures a job logs in its pipeline stages: wrapping, word-timing
\* splitting, rasterization, and clip building or encoding in a builder
StageFailures == {"_wrap_text", "_split_segment_into_words",
                  "create_caption_image", "create_word_highlighted_caption",
                  "create_captioned_video", "create_word_highlighted_video"}

BuilderReturned(j) == jobs[j].status \in {"completed", "returned"}

\* C14 (as claimed): a failure in any pipeline stage for any segment makes
\* the whole job fail, so a job whose builder returned and produced output
\* has had no stage failure: no segment was skipped or rendered through a
\* fallback.
C14_AnyFailureFailsJob ==
    \A j \in DOMAIN jobs :
        BuilderReturned(j) => jobs[j].log \cap StageFailures = {}

\* a segment that ends no later than it starts, or has no text
Malformed(segment) ==
    segment.end_time <= segment.start_time \/ segment.text = <<>>

\* C15 (as claimed): a malformed segment is fatal for the whole job: no
\* overlay event is ever built from a malformed segment, and a builder that
\* returned had no malformed segment in its list.
C15_MalformedSegmentFatal ==
    \A j \in DOMAIN jobs :
        LET job == jobs[j]
        IN  /\ \A i \in 1..Len(job.caption_clips) :
                   ~Malformed(job.caption_segments[job.caption_clips[i].bitmap.seg])
            /\ BuilderReturned(j) =>
                   \A k \in 1..Len(job.caption_segments) :
                       ~Malformed(job.caption_segments[k])

(***************************************************************************)
(* Concurrent jobs: two videos uploaded in debug mode; each job's blocking *)
(* calls run in threads of the default executor, on the one VideoProcessor *)
(* and the one CaptionRenderer of the process.                             *)
(***************************************************************************)
MaxConcurrentSegments == 1     \* longest transcript of a concurrent job

ConcurrentSegments == {SegHello, SegLong}

ConcurrentInputs ==
    {NewJob("_process_video_async", "create_captioned_video",
            [width |-> 5, height |-> 100, has_audio |-> TRUE], style, transcript) :
        style \in {s \in JobStyles : s.position = "bottom"},
        transcript \in SeqsUpTo(ConcurrentSegments, MaxConcurrentSegments)}

InitConcurrent ==
    /\ op = "process_video"
    /\ pc = "done"
    /\ args = <<>>
    /\ ret = <<>>
    /\ raised = FALSE
    /\ font_cache = <<>>
    /\ default_fonts = <<SystemFontPath>>
    /\ jobs \in [VideoIds -> ConcurrentInputs]
    /\ temp_dir = <<>>
    /\ processed_dir = {}
    /\ videos = <<>>
    /\ requests = <<>>

NextConcurrent ==
    \/ \E j \in DOMAIN jobs : ExtractAudio(j)
    \/ \E j \in DOMAIN jobs : TranscribeAudio(j)
    \/ \E j \in DOMAIN jobs : OpenVideo(j)
    \/ \E j \in DOMAIN jobs : LoadFontLookup(j)
    \/ \E j \in DOMAIN jobs : CreateCaptionImage(j)
    \/ \E j \in DOMAIN jobs : SaveCaptionImage(j)
    \/ \E j \in DOMAIN jobs : MakeCaptionClip(j)
    \/ \E j \in DOMAIN jobs : WriteVideo(j)
    \/ \E j \in DOMAIN jobs : Finish(j)

SpecConcurrent == InitConcurrent /\ [][NextConcurrent]_vars

(***************************************************************************)
(* Claims about concurrent jobs                                            *)
(***************************************************************************)
\* the temp file a captioning job is about to read after saving its image
PendingFile(j) ==
    TempName("caption", jobs[j].caption_segments[jobs[j].k].start_time)

\* every overlay event of a job carries a bitmap rendered by that job
OwnBitmaps ==
    \A j \in DOMAIN jobs :
        \A i \in 1..Len(jobs[j].caption_clips) :
            jobs[j].caption_clips[i].bitmap.job = j

\* C16 (as claimed): temp bitmap files are private to a job under any
\* interleaving of concurrent jobs: the file a job saved still holds that
\* job's image when the job reads it back, and every overlay event carries
\* the bitmap rendered from its own job's segment.
C16_TempFilesPrivate ==
    /\ \A j \in DOMAIN jobs :
           (jobs[j].pc = "clip" /\ PendingFile(j) \in DOMAIN temp_dir)
               => temp_dir[PendingFile(j)] = jobs[j].caption_img
    /\ OwnBitmaps

(***************************************************************************)
(* Claims about what a job leaves behind                                   *)
(***************************************************************************)
\* the temp files that hold a bitmap written by job j
TempFilesOf(j) == {name \in DOMAIN temp_dir : temp_dir[name].job = j}

\* C17 (as claimed): every temp bitmap file a job writes is deleted by the
\* time the job ends, on success and on failure: an ended job has no temp
\* file left.
C17_TempFilesDeleted ==
    \A j \in DOMAIN jobs : JobDone(j) => TempFilesOf(j) = {}

\* C18 (as claimed): the font cache is insert-once-immutable under
\* concurrency: once a key is in the cache it stays there and maps to the
\* same font object in every later state, so a key is written at most once.
C18_FontCacheInsertOnce ==
    [][\A key \in DOMAIN font_cache :
           key \in DOMAIN font_cache' /\ font_cache'[key] = font_cache[key]]_vars

\* C19 (as claimed): after a job ends in failure nothing of it is retained:
\* no audio file, no captioned output file, no temp bitmap of the job; and
\* the job is in the failed state with exactly one error message.
C19_NoPartialOutput ==
    \A j \in DOMAIN jobs :
        (JobDone(j) /\ jobs[j].status # "completed" /\ jobs[j].runner # "direct") =>
            /\ jobs[j].status = "failed"
            /\ Len(jobs[j].error_messages) = 1
            /\ AudioFile(j) \notin processed_dir
            /\ OutputFile(j) \notin processed_dir
            /\ TempFilesOf(j) = {}

(***************************************************************************)
(* Claims about the overlay events of create_captioned_video               *)
(***************************************************************************)
\* C20: create_captioned_video builds one overlay event per segment, in
\* input order: event i carries the bitmap rendered from segment i, starts
\* at start_time_i, lasts end_time_i - start_time_i (the float difference),
\* and sits at x = center, y = the resolved position for the height of its
\* bitmap; the composite is the base video followed by all the events in
\* that order, overlapping ones included, so a later segment lies over an
\* earlier one.
C20_OneEventPerSegment ==
    \A j \in DOMAIN jobs :
        jobs[j].builder = "create_captioned_video" =>
            LET job == jobs[j]
                clips == job.caption_clips
                segments == job.caption_segments
            IN  /\ Len(clips) <= Len(segments)
                /\ \A i \in 1..Len(clips) :
                       /\ clips[i].bitmap.job = j
                       /\ clips[i].bitmap.seg = i
                       /\ clips[i].start = segments[i].start_time
                       /\ clips[i].duration =
                              FSub(segments[i].end_time, segments[i].start_time)
                       /\ clips[i].pos =
                              <<"center",
                                GetCaptionPosition(job.video.height,
                                    clips[i].bitmap.height,
                                    job.caption_style.position,
                                    job.caption_style.padding)>>
                /\ job.final_video # <<>> =>
                       /\ Len(clips) = Len(segments)
                       /\ job.final_video = <<BaseVideo>> \o clips

\* a completed job with two overlapping segments of the same start: three
\* layers, the second segment's event above the first's
C20_Witness ==
    \E j \in DOMAIN jobs :
        /\ jobs[j].status = "completed"
        /\ jobs[j].caption_segments = <<SegHello, SegOverlap>>
        /\ Len(jobs[j].final_video) = 3
        /\ jobs[j].final_video[2].bitmap.seg = 1
        /\ jobs[j].final_video[3].bitmap.seg = 2
        /\ jobs[j].final_video[3].duration = Quantum
        /\ jobs[j].caption_style.position = "center"

(***************************************************************************)
(* CaptionRenderer.create_caption_image.  A bitmap is its size and the     *)
(* draw.text calls made on it, in order.                                   *)
(***************************************************************************)
MaxStroke == 2       \* largest stroke_width

ColourDark == <<"#", "1", "1", "1", "1", "1", "1">>
ColourLight == <<"a", "a", "A", "A", "a", "a">>
ColourBad == <<"g">>
RenderColours == {ColourDark, ColourLight, ColourBad}

RenderTexts ==
    {<<>>,
     <<"a">>,
     <<"a", " ", "b">>,
     <<"a", " ", "b", " ", "a">>,
     <<"a", " ", "A", " ", "b">>,
     <<"a", "b", " ", "a", "b">>,
     <<" ", "a", " ", " ", "b", " ">>}

RenderStyles ==
    [font_type : {"Arial"}, font_size : {MinFontSize, 24},
     stroke_width : 0..MaxStroke, padding : {MinPadding, 10},
     position : {"bottom"},
     font_color : RenderColours, stroke_color : RenderColours]

StrokeOffsetsSquare(stroke_width) ==
    LET side == 2 * stroke_width + 1
    IN  [n \in 1..(side * side) |->
            <<((n - 1) \div side) - stroke_width,
              ((n - 1) % side) - stroke_width>>]

\* the (dx, dy) of the two nested range(-stroke_width, stroke_width + 1)
\* loops, dx outer and dy inner, that pass the test dx*dx + dy*dy <=
\* stroke_width*stroke_width
StrokeOffsets(stroke_width) ==
    LET side == 2 * stroke_width + 1
        all == [n \in 1..(side * side) |->
                   <<((n - 1) \div side) - stroke_width,
                     ((n - 1) % side) - stroke_width>>]
    IN  SelectSeq(all, LAMBDA o :
            o[1] * o[1] + o[2] * o[2] <= stroke_width * stroke_width)

\* the draw.text calls for one run of text at (x, y) in a font: the outline
\* pass when stroke_width > 0, then the main text
DrawRun(x, y, text, font, stroke_width, outline, fill) ==
    LET offsets == StrokeOffsets(stroke_width)
        strokes == IF stroke_width > 0
                   THEN [n \in 1..Len(offsets) |->
                            [pass |-> "outline",
                             at |-> <<x + offsets[n][1], y + offsets[n][2]>>,
                             text |-> text, font |-> font, fill |-> outline]]
                   ELSE <<>>
    IN  strokes \o <<[pass |-> "fill", at |-> <<x, y>>, text |-> text,
                      font |-> font, fill |-> fill]>>

TotalHeightOnePadding(lines, style) ==
    Len(lines) * (style.font_size + 4) + style.padding

\* line_height = font_size + 4; total_height = len(lines) * line_height +
\* padding * 2
TotalHeight(lines, style) ==
    Len(lines) * (style.font_size + 4) + style.padding * 2

\* the draw loop of create_caption_image: each line centred, one line_height
\* below the previous one
CaptionDraws(lines, video_width, style, font) ==
    LET glyphs == GlyphAdvances(font)
        font_color == HexToRgb(style.font_color).value
        stroke_color == HexToRgb(style.stroke_color).value
    IN  Flatten([i \in 1..Len(lines) |->
            DrawRun((video_width - TextWidth(glyphs, lines[i])) \div 2,
                    style.padding + (i - 1) * (style.font_size + 4),
                    lines[i], font, style.stroke_width, stroke_color, font_color)])

NoBitmap == [width |-> 0, height |-> 0, draws |-> <<>>]

\* create_caption_image: the font is loaded through the cache, the text is
\* wrapped to int(video_width * 0.8), the image is created and the lines are
\* drawn; draw_raises: Image.new or a draw call raises, which is logged and
\* re-raised
RenderCaption(cache, defaults, text, video_width, style, truetype_ok, getbbox_raises, draw_raises) ==
    LET loaded == LoadFont(cache, defaults, style.font_type, style.font_size,
                           TRUE, truetype_ok)
        glyphs == GlyphAdvances(loaded.font)
        max_width == (video_width * 4) \div 5
        lines == WrapText(text, glyphs, max_width, getbbox_raises)
    IN  IF draw_raises
        THEN [value |-> NoBitmap, cache |-> loaded.cache, raised |-> TRUE]
        ELSE [value |-> [width |-> video_width,
                         height |-> TotalHeight(lines, style),
                         draws |-> CaptionDraws(lines, video_width, style,
                                                loaded.font)],
              cache |-> loaded.cache, raised |-> FALSE]

ImageArgs ==
    [text : RenderTexts, video_width : {5, 10}, style : RenderStyles,
     truetype_ok : BOOLEAN, getbbox_raises : BOOLEAN, draw_raises : BOOLEAN]

InitImage ==
    /\ op = "create_caption_image"
    /\ pc = "call"
    /\ args \in ImageArgs
    /\ ret = NoBitmap
    /\ raised = FALSE
    /\ font_cache = <<>>
    /\ default_fonts = <<SystemFontPath>>
    /\ NoJobs

CallCreateCaptionImage ==
    /\ op = "create_caption_image"
    /\ pc = "call"
    /\ LET r == RenderCaption(font_cache, default_fonts, args.text,
                              args.video_width, args.style, args.truetype_ok,
                              args.getbbox_raises, args.draw_raises)
       IN  /\ ret' = r.value
           /\ raised' = r.raised
           /\ font_cache' = r.cache
    /\ pc' = "done"
    /\ UNCHANGED <<op, args, default_fonts, jobs, temp_dir, processed_dir, videos, requests>>

NextImage == CallCreateCaptionImage

SpecImage == InitImage /\ [][NextImage]_vars

ImageReturned == op = "create_caption_image" /\ pc = "done" /\ ~raised

\* the draw calls of the main text, in order
FillDraws(bitmap) == SelectSeq(bitmap.draws, LAMBDA d : d.pass = "fill")

\* the draw calls of the outline pass, in order
OutlineDraws(bitmap) == SelectSeq(bitmap.draws, LAMBDA d : d.pass = "outline")

\* C21: for a text with at least one word and a valid style the bitmap
\* returned by create_caption_image is video_width wide and (number of
\* wrapped lines) * (font_size + 4) + 2 * padding high, which is more than 0;
\* the number of wrapped lines is the number of lines drawn.
C21_BitmapSize ==
    (ImageReturned /\ Split(args.text) # <<>> /\ ~CaptionStyle(args.style).raised) =>
        LET font == font_cache[CacheKey(args.style.font_type, args.style.font_size)]
            lines == WrapText(args.text, GlyphAdvances(font),
                              (args.video_width * 4) \div 5, args.getbbox_raises)
        IN  /\ ret.width = args.video_width
            /\ Len(FillDraws(ret)) = Len(lines)
            /\ ret.height = Len(lines) * (args.style.font_size + 4)
                                + 2 * args.style.padding
            /\ ret.height > 0

\* three words wrapped to two lines of 28 pixels between two paddings of 10
C21_Witness ==
    /\ ImageReturned
    /\ args.text = <<"a", " ", "b", " ", "a">>
    /\ args.video_width = 5
    /\ args.style.font_size = 24 /\ args.style.padding = 10
    /\ Len(FillDraws(ret)) = 2
    /\ ret.height = 76

(***************************************************************************)
(* CaptionRenderer.create_word_highlighted_caption                         *)
(***************************************************************************)
\* str.lower() on the characters of the model
LowerWord(word) == [n \in 1..Len(word) |-> IF word[n] = "A" THEN "a" ELSE word[n]]

\* x_offset of word n of a line: padding, moved by the width of every earlier
\* word plus 4
RECURSIVE WordX(_, _, _, _)
WordX(words, n, glyphs, padding) ==
    IF n = 1 THEN padding
    ELSE WordX(words, n - 1, glyphs, padding) + TextWidth(glyphs, words[n - 1]) + 4

\* word_color = highlight_rgb if word.lower() == current_word.lower() else
\* font_color, for word n of a line
WordColour(words, n, current_word, highlight_rgb, font_color) ==
    IF LowerWord(words[n]) = LowerWord(current_word)
    THEN highlight_rgb ELSE font_color

\* stroke_col = stroke_color if word_color == font_color else font_color
StrokeColour(word_color, font_color, stroke_color) ==
    IF word_color = font_color THEN stroke_color ELSE font_color

\* the draw loop of create_word_highlighted_caption: the words of each line
\* from x = padding, each with its own colours
HighlightDraws(lines, current_word, style, highlight_color, font) ==
    LET glyphs == GlyphAdvances(font)
        font_color == HexToRgb(style.font_color).value
        stroke_color == HexToRgb(style.stroke_color).value
        highlight_rgb == HexToRgb(highlight_color).value
        LineDraws(i) ==
            LET words == Split(lines[i])
            IN  Flatten([n \in 1..Len(words) |->
                    LET word_color == WordColour(words, n, current_word,
                                                 highlight_rgb, font_color)
                    IN  DrawRun(WordX(words, n, glyphs, style.padding),
                                style.padding + (i - 1) * (style.font_size + 4),
                                words[n], font, style.stroke_width,
                                StrokeColour(word_color, font_color, stroke_color),
                                word_color)])
    IN  Flatten([i \in 1..Len(lines) |-> LineDraws(i)])

\* create_word_highlighted_caption, with the same outcomes as
\* create_caption_image
RenderHighlighted(cache, defaults, text, current_word, video_width, style, highlight_color, truetype_ok, getbbox_raises, draw_raises) ==
    LET loaded == LoadFont(cache, defaults, style.font_type, style.font_size,
                           TRUE, truetype_ok)
        glyphs == GlyphAdvances(loaded.font)
        max_width == (video_width * 4) \div 5
        lines == WrapText(text, glyphs, max_width, getbbox_raises)
    IN  IF draw_raises
        THEN [value |-> NoBitmap, cache |-> loaded.cache, raised |-> TRUE]
        ELSE [value |-> [width |-> video_width,
                         height |-> TotalHeight(lines, style),
                         draws |-> HighlightDraws(lines, current_word, style,
                                                  highlight_color, loaded.font)],
              cache |-> loaded.cache, raised |-> FALSE]

HighlightStyles ==
    [font_type : {"Arial"}, font_size : {24}, stroke_width : 0..MaxStroke,
     padding : {10}, position : {"bottom"},
     font_color : RenderColours, stroke_color : RenderColours]

CurrentWords == {<<"a">>, <<"A">>, <<"b">>, <<"a", "b">>}

HighlightArgs ==
    [text : RenderTexts, current_word : CurrentWords, video_width : {5, 10},
     style : HighlightStyles, highlight_color : RenderColours,
     truetype_ok : BOOLEAN, getbbox_raises : BOOLEAN, draw_raises : BOOLEAN]

InitHighlight ==
    /\ op = "create_word_highlighted_caption"
    /\ pc = "call"
    /\ args \in HighlightArgs
    /\ ret = NoBitmap
    /\ raised = FALSE
    /\ font_cache = <<>>
    /\ default_fonts = <<SystemFontPath>>
    /\ NoJobs

CallCreateWordHighlightedCaption ==
    /\ op = "create_word_highlighted_caption"
    /\ pc = "call"
    /\ LET r == RenderHighlighted(font_cache, default_fonts, args.text,
                                  args.current_word, args.video_width,
                                  args.style, args.highlight_color,
                                  args.truetype_ok, args.getbbox_raises,
                                  args.draw_raises)
       IN  /\ ret' = r.value
           /\ raised' = r.raised
           /\ font_cache' = r.cache
    /\ pc' = "done"
    /\ UNCHANGED <<op, args, default_fonts, jobs, temp_dir, processed_dir, videos, requests>>

NextHighlight == CallCreateWordHighlightedCaption

SpecHighlight == InitHighlight /\ [][NextHighlight]_vars

HighlightReturned ==
    op = "create_word_highlighted_caption" /\ pc = "done" /\ ~raised


\* C22: with stroke_width > 0, for every style and every highlight colour,
\* the outline of the highlighted word is drawn in the style's fill (font)
\* colour and the outline of every other word in the stroke colour.
C22_OutlineColours ==
    (HighlightReturned /\ args.style.stroke_width > 0) =>
        \A n \in DOMAIN ret.draws :
            ret.draws[n].pass = "outline" =>
                ret.draws[n].fill =
                    IF LowerWord(ret.draws[n].text) = LowerWord(args.current_word)
                    THEN HexToRgb(args.style.font_color).value
                    ELSE HexToRgb(args.style.stroke_color).value

\* the outline colours are as stated when the highlight colour differs from
\* the font colour
C22_OutlineColoursDistinct ==
    (/\ HighlightReturned /\ args.style.stroke_width > 0
     /\ HexToRgb(args.highlight_color).value # HexToRgb(args.style.font_color).value) =>
        \A n \in DOMAIN ret.draws :
            ret.draws[n].pass = "outline" =>
                ret.draws[n].fill =
                    IF LowerWord(ret.draws[n].text) = LowerWord(args.current_word)
                    THEN HexToRgb(args.style.font_color).value
                    ELSE HexToRgb(args.style.stroke_color).value

\* C27: in the overlay for word timing i of a segment the word at position i
\* is drawn in the highlight colour and the word at every other position in
\* the fill colour, also when the word occurs more than once or in another
\* letter case.
C27_OnlyPositionHighlighted ==
    HighlightReturned =>
        \A i \in DOMAIN Split(args.text) :
            Split(args.text)[i] = args.current_word =>
                /\ Len(FillDraws(ret)) = Len(Split(args.text))
                /\ \A k \in DOMAIN FillDraws(ret) :
                       FillDraws(ret)[k].fill =
                           IF k = i THEN HexToRgb(args.highlight_color).value
                           ELSE HexToRgb(args.style.font_color).value

\* only position i is highlighted when no two words of the segment are equal
\* up to letter case
C27_DistinctWords ==
    (/\ HighlightReturned
     /\ \A m, n \in DOMAIN Split(args.text) :
            LowerWord(Split(args.text)[m]) = LowerWord(Split(args.text)[n]) => m = n) =>
        \A i \in DOMAIN Split(args.text) :
            Split(args.text)[i] = args.current_word =>
                /\ Len(FillDraws(ret)) = Len(Split(args.text))
                /\ \A k \in DOMAIN FillDraws(ret) :
                       FillDraws(ret)[k].fill =
                           IF k = i THEN HexToRgb(args.highlight_color).value
                           ELSE HexToRgb(args.style.font_color).value

\* the integer offsets within stroke_width of the origin
Disc(stroke_width) ==
    {o \in (-stroke_width..stroke_width) \X (-stroke_width..stroke_width) :
        o[1] * o[1] + o[2] * o[2] <= stroke_width * stroke_width}

\* the lines create_caption_image drew, recomputed from the call
ImageLines ==
    WrapText(args.text,
             GlyphAdvances(font_cache[CacheKey(args.style.font_type,
                                               args.style.font_size)]),
             (args.video_width * 4) \div 5, args.getbbox_raises)

\* C25: in create_caption_image the draws of a line are, in order, one
\* outline draw per integer offset (dx, dy) with dx*dx + dy*dy <=
\* stroke_width*stroke_width, each in the stroke colour, and then the line's
\* single draw in the fill colour at offset (0, 0); with stroke_width = 0 the
\* line has exactly one draw, the fill.
C25_OutlineThenFill ==
    ImageReturned =>
        LET w == args.style.stroke_width
            per_line == IF w > 0 THEN Cardinality(Disc(w)) + 1 ELSE 1
            Block(i) == SubSeq(ret.draws, (i - 1) * per_line + 1, i * per_line)
        IN  /\ Len(ret.draws) = Len(ImageLines) * per_line
            /\ \A i \in DOMAIN ImageLines :
                  LET block == Block(i)
                      main == block[per_line]
                  IN  /\ main.pass = "fill"
                      /\ main.text = ImageLines[i]
                      /\ main.fill = HexToRgb(args.style.font_color).value
                      /\ \A n \in 1..(per_line - 1) :
                            /\ block[n].pass = "outline"
                            /\ block[n].text = ImageLines[i]
                            /\ block[n].fill = HexToRgb(args.style.stroke_color).value
                      /\ {<<block[n].at[1] - main.at[1], block[n].at[2] - main.at[2]>> :
                              n \in 1..(per_line - 1)} = (IF w > 0 THEN Disc(w) ELSE {})
                      /\ \A m, n \in 1..(per_line - 1) :
                            block[m].at = block[n].at => m = n

\* two lines with stroke_width 2: thirteen outline draws before each fill
C25_Witness ==
    /\ ImageReturned
    /\ args.style.stroke_width = 2
    /\ Len(ImageLines) = 2
    /\ Len(OutlineDraws(ret)) = 26
    /\ Len(FillDraws(ret)) = 2
    /\ ret.draws[14].pass = "fill"

\* C24: _wrap_text is greedy: for every two consecutive returned lines, the
\* earlier line, a space and the first word of the later line together
\* measure more than max_width.
C24_Greedy ==
    WrapDone =>
        \A k \in 1..(Len(ret) - 1) :
            ~WrapFits(ret[k] \o <<" ">> \o Split(ret[k + 1])[1])

\* a line of two words that fits, followed by a line whose first word would
\* not have fitted on it
C24_Witness ==
    /\ WrapMeasured
    /\ Len(ret) = 2
    /\ Len(Split(ret[1])) = 2
    /\ WrapFits(ret[1]) /\ WrapFits(ret[2])
    /\ ~WrapFits(ret[1] \o <<" ">> \o Split(ret[2])[1])

ResolverDone == op \in PositionOps /\ pc = "done"

\* C28: for all integers video_height, caption_height and padding and every
\* position string, CaptionRenderer.get_caption_position and
\* VideoProcessor._calculate_caption_position return the same y.
C28_ResolversEquivalent ==
    (ResolverDone /\ args.position \in PositionStrings) =>
        /\ ret = GetCaptionPosition(args.video_height, args.caption_height,
                                    args.position, args.padding)
        /\ ret = CalculateCaptionPosition(args.video_height, args.caption_height,
                                          args.position, args.padding)

\* the video processor's resolver has answered for an unrecognised mode with
\* a padding other than the default, as the renderer's resolver does
C28_Witness ==
    /\ op = "_calculate_caption_position" /\ pc = "done"
    /\ args.position = "left"
    /\ args.padding = 3
    /\ args.video_height = 6 /\ args.caption_height = 1
    /\ ret = 2
    /\ ret = GetCaptionPosition(args.video_height, args.caption_height,
                                args.position, args.padding)

\* the two resolvers differ when the position is not a string: the except
\* clauses subtract 20 and padding
ResolversEquivalentAnyInput ==
    ResolverDone =>
        ret = GetCaptionPosition(args.video_height, args.caption_height,
                                 args.position, args.padding)

(***************************************************************************)
(* Claims about the overlay events of create_word_highlighted_video        *)
(***************************************************************************)
\* set_start(t) on a clip with a duration sets its end to t + duration
EventEnd(event) == FAdd(event.start, event.duration)

\* the word timings of each segment of a job
WordTimingsOf(job) ==
    [k \in 1..Len(job.caption_segments) |->
        SplitSegmentIntoWords(job.caption_segments[k]).value]

\* the number of word timings of the segments before segment k
RECURSIVE EventsBefore(_, _)
EventsBefore(timings, k) ==
    IF k = 1 THEN 0 ELSE EventsBefore(timings, k - 1) + Len(timings[k - 1])

\* the events of segment k among the clips of a finished builder
SegmentEvents(job, timings, k) ==
    SubSeq(job.caption_clips, EventsBefore(timings, k) + 1,
           EventsBefore(timings, k) + Len(timings[k]))

HighlightedReturned(j) ==
    /\ jobs[j].builder = "create_word_highlighted_video"
    /\ jobs[j].status = "returned"

OneEventPerWordTiming(job, timings) ==
    /\ Len(job.caption_clips) = EventsBefore(timings, Len(timings) + 1)
    /\ job.final_video = <<BaseVideo>> \o job.caption_clips
    /\ \A k \in 1..Len(timings) :
           LET events == SegmentEvents(job, timings, k)
           IN  \A i \in 1..Len(events) :
                   /\ events[i].start = timings[k][i].start
                   /\ events[i].duration = FSub(timings[k][i].end, timings[k][i].start)
                   /\ events[i].bitmap.seg = k
                   /\ events[i].bitmap.word = i

\* consecutive events of a segment meet: each ends where the next starts,
\* and none is reversed
EventsContiguous(events) ==
    /\ \A i \in 1..Len(events) : events[i].start <= EventEnd(events[i])
    /\ \A i \in 1..(Len(events) - 1) : EventEnd(events[i]) = events[i + 1].start

\* the segments with start_time < end_time and at least one word
TimedSegments(job) ==
    {k \in 1..Len(job.caption_segments) :
        /\ job.caption_segments[k].start_time < job.caption_segments[k].end_time
        /\ Split(job.caption_segments[k].text) # <<>>}

WordEventsMeet ==
    (SplitDone /\ SegS < SegE /\ SegN >= 1) =>
        \A i \in 1..Len(ret) :
            /\ FAdd(ret[i].start, FSub(ret[i].end, ret[i].start)) = ret[i].end
            /\ ret[i].start <= ret[i].end

(***************************************************************************)
(* Two calls of create_caption_image with the same arguments, and the      *)
(* other users of the renderer between them.  Whether getbbox raises is a  *)
(* property of the font and the text, so it is the same in both calls;     *)
(* whether a font file can be opened is the environment's, at each load.   *)
(***************************************************************************)
RepeatStyles ==
    [font_type : {"Arial"}, font_size : {MinFontSize, 24},
     stroke_width : {0, 1}, padding : {10}, position : {"bottom"},
     font_color : {ColourLight}, stroke_color : {ColourDark}]

RepeatArgs ==
    [text : RenderTexts, video_width : {5, 10}, style : RepeatStyles,
     getbbox_raises : BOOLEAN]

InitRepeat ==
    /\ op = "create_caption_image"
    /\ pc = "call"
    /\ args \in RepeatArgs
    /\ ret = <<>>
    /\ raised = FALSE
    /\ font_cache = <<>>
    /\ default_fonts = <<SystemFontPath>>
    /\ NoJobs

\* one of the two calls under observation: its bitmap is recorded with the
\* lines _wrap_text gave it and whether the font was in the cache
RepeatCreateCaptionImage ==
    /\ op = "create_caption_image"
    /\ Len(ret) < 2
    /\ \E truetype_ok \in BOOLEAN :
          LET r == RenderCaption(font_cache, default_fonts, args.text,
                                 args.video_width, args.style, truetype_ok,
                                 args.getbbox_raises, FALSE)
              font == r.cache[CacheKey(args.style.font_type, args.style.font_size)]
          IN  /\ ret' = Append(ret,
                     [bitmap |-> r.value,
                      cached |-> CacheKey(args.style.font_type, args.style.font_size)
                                     \in DOMAIN font_cache,
                      font |-> font,
                      lines |-> WrapText(args.text, GlyphAdvances(font),
                                         (args.video_width * 4) \div 5,
                                         args.getbbox_raises)])
              /\ font_cache' = r.cache
    /\ pc' = IF Len(ret) = 1 THEN "done" ELSE pc
    /\ UNCHANGED <<op, args, raised, default_fonts, jobs, temp_dir, processed_dir, videos, requests>>

\* another render call, of any text and a style of any size: what it leaves
\* behind is the font it loaded
OtherRender ==
    /\ op = "create_caption_image"
    /\ pc = "call"
    /\ \E style \in RepeatStyles, truetype_ok \in BOOLEAN :
          /\ CacheKey(style.font_type, style.font_size) \notin DOMAIN font_cache
          /\ font_cache' = LoadFont(font_cache, default_fonts, style.font_type,
                                    style.font_size, TRUE, truetype_ok).cache
    /\ UNCHANGED <<op, pc, args, ret, raised, default_fonts, jobs, temp_dir, processed_dir, videos, requests>>

\* cleanup_font_cache between the calls
CleanupBetweenCalls ==
    /\ op = "create_caption_image"
    /\ pc = "call"
    /\ font_cache # <<>>
    /\ font_cache' = <<>>
    /\ UNCHANGED <<op, pc, args, ret, raised, default_fonts, jobs, temp_dir, processed_dir, videos, requests>>

NextRepeat == RepeatCreateCaptionImage \/ OtherRender \/ CleanupBetweenCalls

SpecRepeat == InitRepeat /\ [][NextRepeat]_vars

BothReturned == op = "create_caption_image" /\ pc = "done" /\ Len(ret) = 2

\* C23 (as claimed): two calls of create_caption_image with equal text, style
\* and video_width, the font being in the cache, return identical bitmaps
\* whatever render or cache operations ran in between; and _wrap_text gives
\* the same lines for the same text, font, size and max_width.
C23_Deterministic ==
    BothReturned =>
        /\ (ret[1].cached /\ ret[2].cached) => ret[1].bitmap = ret[2].bitmap
        /\ ret[1].font = ret[2].font => ret[1].lines = ret[2].lines

\* the two bitmaps are equal when both calls drew with the same font; the
\* lines of _wrap_text are a function of its arguments
SameFontSameBitmap ==
    BothReturned =>
        (ret[1].font = ret[2].font =>
            ret[1].bitmap = ret[2].bitmap /\ ret[1].lines = ret[2].lines)

(***************************************************************************)
(* The API: POST /upload, POST /caption and GET /video/{id}/status, the    *)
(* video documents and the jobs they dispatch.  A handler is a coroutine:  *)
(* it runs alone between two awaits, and at an await of the database any   *)
(* other handler or job may run.  The mode is settings.debug: TRUE         *)
(* dispatches _process_video_async on the event loop, FALSE sends          *)
(* process_video_task to a Celery worker.  Only accepted uploads are       *)
(* modelled.                                                               *)
(***************************************************************************)
MaxRequests == 3     \* HTTP requests received in one run

Document(status) == [status |-> status, celery_task_id |-> FALSE]

Put(f, key, value) ==
    [k \in (DOMAIN f) \cup {key} |-> IF k = key THEN value ELSE f[k]]

\* the job a handler dispatches: asyncio.create_task(_process_video_async(..))
\* or process_video_task.delay(..), whose task state starts as PENDING
Dispatched(video_id) ==
    [video_id |-> video_id,
     runner |-> IF args.debug THEN "_process_video_async" ELSE "process_video_task",
     pc |-> "start",
     state |-> IF args.debug THEN "" ELSE "PENDING"]

\* the jobs of a video that have not run to their end
InFlight(video_id) ==
    {j \in DOMAIN jobs : jobs[j].video_id = video_id /\ jobs[j].pc # "done"}

InitApi ==
    /\ op = "serve"
    /\ pc = "done"
    /\ args \in [debug : BOOLEAN]
    /\ ret = <<>>
    /\ raised = FALSE
    /\ font_cache = <<>>
    /\ default_fonts = <<SystemFontPath>>
    /\ NoJobs

Receive(request) ==
    /\ op = "serve"
    /\ Len(requests) < MaxRequests
    /\ requests' = Append(requests, request)

\* the video ids the clients of the model name in their requests; an upload
\* is given the one no upload has taken
ApiVideoIds == {"v1"}

FreshIds ==
    {video_id \in ApiVideoIds :
        \A r \in DOMAIN requests :
            requests[r].kind = "upload" => requests[r].video_id # video_id}

\* POST /upload arrives: the video_id is a fresh uuid
ReceiveUpload ==
    /\ FreshIds # {}
    /\ Receive([kind |-> "upload",
                video_id |-> CHOOSE video_id \in FreshIds : TRUE,
                pc |-> "insert", busy |-> FALSE, response |-> ""])
    /\ UNCHANGED <<call, font_cache, default_fonts, jobs, temp_dir, processed_dir, videos>>

\* upload_video up to its await: the document is inserted with status pending
UploadInsert(r) ==
    /\ requests[r].kind = "upload" /\ requests[r].pc = "insert"
    /\ videos' = Put(videos, requests[r].video_id, Document("pending"))
    /\ requests' = [requests EXCEPT ![r].pc = "dispatch"]
    /\ UNCHANGED <<call, font_cache, default_fonts, jobs, temp_dir, processed_dir>>

\* upload_video from the insert on: the job is dispatched, in Celery mode the
\* task id is stored, and the response says pending
UploadDispatch(r) ==
    /\ requests[r].kind = "upload" /\ requests[r].pc = "dispatch"
    /\ jobs' = Put(jobs, r, Dispatched(requests[r].video_id))
    /\ videos' = [videos EXCEPT ![requests[r].video_id].celery_task_id = ~args.debug]
    /\ requests' = [requests EXCEPT ![r].pc = "done", ![r].response = "200"]
    /\ UNCHANGED <<call, font_cache, default_fonts, temp_dir, processed_dir>>

\* POST /caption arrives
ReceiveCaption ==
    /\ \E video_id \in ApiVideoIds :
          Receive([kind |-> "caption", video_id |-> video_id, pc |-> "find",
                   busy |-> FALSE, response |-> ""])
    /\ UNCHANGED <<call, font_cache, default_fonts, jobs, temp_dir, processed_dir, videos>>

\* create_captions, find_one and the tests on its result: 404 without a
\* document, 409 when the status is processing; busy records whether a job
\* of the video was in flight when the document was read
CaptionFind(r) ==
    /\ requests[r].kind = "caption" /\ requests[r].pc = "find"
    /\ LET video_id == requests[r].video_id
           seen == [requests[r] EXCEPT !.busy = InFlight(video_id) # {}]
       IN  requests' = [requests EXCEPT ![r] =
               IF video_id \notin DOMAIN videos
               THEN [seen EXCEPT !.pc = "done", !.response = "404"]
               ELSE IF videos[video_id].status = "processing"
               THEN [seen EXCEPT !.pc = "done", !.response = "409"]
               ELSE [seen EXCEPT !.pc = "update"]]
    /\ UNCHANGED <<call, font_cache, default_fonts, jobs, temp_dir, processed_dir, videos>>

\* create_captions, update_one: the status becomes processing
CaptionUpdate(r) ==
    /\ requests[r].kind = "caption" /\ requests[r].pc = "update"
    /\ videos' = [videos EXCEPT ![requests[r].video_id].status = "processing"]
    /\ requests' = [requests EXCEPT ![r].pc = "dispatch"]
    /\ UNCHANGED <<call, font_cache, default_fonts, jobs, temp_dir, processed_dir>>

\* create_captions from the update on: the job is dispatched and the
\* response says processing
CaptionDispatch(r) ==
    /\ requests[r].kind = "caption" /\ requests[r].pc = "dispatch"
    /\ jobs' = Put(jobs, r, Dispatched(requests[r].video_id))
    /\ videos' = [videos EXCEPT ![requests[r].video_id].celery_task_id =
                      @ \/ ~args.debug]
    /\ requests' = [requests EXCEPT ![r].pc = "done", ![r].response = "200"]
    /\ UNCHANGED <<call, font_cache, default_fonts, temp_dir, processed_dir>>

\* GET /video/{id}/status, which has no await between reading the document
\* and answering: the status of the document, or 404
GetVideoStatus ==
    /\ \E video_id \in ApiVideoIds :
          Receive([kind |-> "status", video_id |-> video_id, pc |-> "done",
                   busy |-> FALSE,
                   response |-> IF video_id \in DOMAIN videos
                                THEN videos[video_id].status ELSE "404"])
    /\ UNCHANGED <<call, font_cache, default_fonts, jobs, temp_dir, processed_dir, videos>>

\* one stage of _process_video_async: on to the next stage, or into the
\* except clause
Step(j, from, to, ok) ==
    /\ jobs[j].runner = "_process_video_async" /\ jobs[j].pc = from
    /\ jobs' = [jobs EXCEPT ![j].pc = IF ok THEN to ELSE "except"]

\* _process_video_async: the status becomes processing
AsyncSetProcessing(j) ==
    /\ Step(j, "start", "extract", TRUE)
    /\ videos' = [videos EXCEPT ![jobs[j].video_id].status = "processing"]
    /\ UNCHANGED <<call, font_cache, default_fonts, temp_dir, processed_dir, requests>>

\* extract_audio in the executor and the awaited transcribe_audio; either
\* may raise
AsyncExtractTranscribe(j) ==
    /\ \E ok \in BOOLEAN :
          Step(j, "extract", "build", ok)
    /\ processed_dir' = processed_dir \cup {AudioFile(jobs[j].video_id)}
    /\ UNCHANGED <<call, font_cache, default_fonts, temp_dir, videos, requests>>

\* create_captioned_video in the executor, up to write_videofile: the output
\* file {video_id}_captioned.mp4 is being written
AsyncBeginWrite(j) ==
    /\ \E ok \in BOOLEAN :
          Step(j, "build", "writing", ok)
    /\ UNCHANGED <<call, font_cache, default_fonts, temp_dir, processed_dir, videos, requests>>

\* write_videofile returns or raises
AsyncEndWrite(j) ==
    /\ \E ok \in BOOLEAN :
          Step(j, "writing", "set_completed", ok)
    /\ processed_dir' = processed_dir \cup {OutputFile(jobs[j].video_id)}
    /\ UNCHANGED <<call, font_cache, default_fonts, temp_dir, videos, requests>>

AsyncSetCompleted(j) ==
    /\ Step(j, "set_completed", "done", TRUE)
    /\ videos' = [videos EXCEPT ![jobs[j].video_id].status = "completed"]
    /\ UNCHANGED <<call, font_cache, default_fonts, temp_dir, processed_dir, requests>>

\* the except clause: the status becomes failed
AsyncSetFailed(j) ==
    /\ Step(j, "except", "done", TRUE)
    /\ videos' = [videos EXCEPT ![jobs[j].video_id].status = "failed"]
    /\ UNCHANGED <<call, font_cache, default_fonts, temp_dir, processed_dir, requests>>

\* process_video_task on the worker: update_state(PROGRESS) with the current
\* step; the task never touches the document
TaskStart(j) ==
    /\ jobs[j].runner = "process_video_task" /\ jobs[j].pc = "start"
    /\ jobs' = [jobs EXCEPT ![j].pc = "extract", ![j].state = "extracting_audio"]
    /\ UNCHANGED <<call, font_cache, default_fonts, temp_dir, processed_dir, videos, requests>>

\* extract_audio, which may raise; then transcribe_audio is called without
\* await and returns a coroutine object
TaskExtract(j) ==
    /\ jobs[j].runner = "process_video_task" /\ jobs[j].pc = "extract"
    /\ \E ok \in BOOLEAN :
          jobs' = [jobs EXCEPT ![j] =
                      IF ok THEN [@ EXCEPT !.pc = "build", !.state = "creating_captions"]
                      ELSE [@ EXCEPT !.pc = "except"]]
    /\ processed_dir' = processed_dir \cup {AudioFile(jobs[j].video_id)}
    /\ UNCHANGED <<call, font_cache, default_fonts, temp_dir, videos, requests>>

\* create_captioned_video raises on the coroutine object before anything is
\* written
TaskBuild(j) ==
    /\ jobs[j].runner = "process_video_task" /\ jobs[j].pc = "build"
    /\ jobs' = [jobs EXCEPT ![j].pc = "except"]
    /\ UNCHANGED <<call, font_cache, default_fonts, temp_dir, processed_dir, videos, requests>>

\* the except clause: update_state(FAILURE) and re-raise
TaskFail(j) ==
    /\ jobs[j].runner = "process_video_task" /\ jobs[j].pc = "except"
    /\ jobs' = [jobs EXCEPT ![j].pc = "done", ![j].state = "FAILURE"]
    /\ UNCHANGED <<call, font_cache, default_fonts, temp_dir, processed_dir, videos, requests>>

NextApi ==
    \/ ReceiveUpload
    \/ ReceiveCaption
    \/ GetVideoStatus
    \/ \E r \in DOMAIN requests : UploadInsert(r)
    \/ \E r \in DOMAIN requests : UploadDispatch(r)
    \/ \E r \in DOMAIN requests : CaptionFind(r)
    \/ \E r \in DOMAIN requests : CaptionUpdate(r)
    \/ \E r \in DOMAIN requests : CaptionDispatch(r)
    \/ \E j \in DOMAIN jobs : AsyncSetProcessing(j)
    \/ \E j \in DOMAIN jobs : AsyncExtractTranscribe(j)
    \/ \E j \in DOMAIN jobs : AsyncBeginWrite(j)
    \/ \E j \in DOMAIN jobs : AsyncEndWrite(j)
    \/ \E j \in DOMAIN jobs : AsyncSetCompleted(j)
    \/ \E j \in DOMAIN jobs : AsyncSetFailed(j)
    \/ \E j \in DOMAIN jobs : TaskStart(j)
    \/ \E j \in DOMAIN jobs : TaskExtract(j)
    \/ \E j \in DOMAIN jobs : TaskBuild(j)
    \/ \E j \in DOMAIN jobs : TaskFail(j)

SpecApi == InitApi /\ [][NextApi]_vars

OneJobInFlight == \A video_id \in ApiVideoIds : Cardinality(InFlight(video_id)) <= 1

BusyAnswered409 ==
    \A r \in DOMAIN requests :
        (requests[r].kind = "caption" /\ requests[r].busy) =>
            (requests[r].response = "409" /\ r \notin DOMAIN jobs)

OneWriterPerOutput ==
    \A i, j \in DOMAIN jobs :
        (/\ jobs[i].video_id = jobs[j].video_id
         /\ jobs[i].pc = "writing" /\ jobs[j].pc = "writing") => i = j

\* C29 (as claimed): however the POST /caption requests and the dispatch of
\* POST /upload for one video interleave, at most one job of the video is in
\* flight; a request that arrives while a job runs is answered 409 and
\* dispatches nothing; so two jobs never write the same
\* {video_id}_captioned.mp4 at the same time.
C29_OneJobPerVideo ==
    OneJobInFlight /\ BusyAnswered409 /\ OneWriterPerOutput

\* the requests of a video that are still being handled
OpenRequests(video_id) ==
    {r \in DOMAIN requests :
        requests[r].video_id = video_id /\ requests[r].pc # "done"}

JobsOf(video_id) == {j \in DOMAIN jobs : jobs[j].video_id = video_id}

\* C30 (as claimed): in both dispatch modes, once the job of an accepted
\* upload has run to its end the status stored in the document, which GET
\* /api/video/{id}/status returns, is completed or failed.
C30_StatusTerminalAfterJob ==
    \A video_id \in DOMAIN videos :
        (/\ JobsOf(video_id) # {}
         /\ InFlight(video_id) = {}
         /\ OpenRequests(video_id) = {}) =>
            videos[video_id].status \in {"completed", "failed"}

\* in debug mode the document is terminal once the jobs have ended
DebugStatusTerminalAfterJob ==
    args.debug => C30_StatusTerminalAfterJob

\* the status of a document moves pending -> processing -> completed or
\* failed, and leaves completed or failed only for processing
StatusMoves ==
    [][\A video_id \in DOMAIN videos :
          LET old == videos[video_id].status
              new == videos'[video_id].status
          IN  \/ new = old
              \/ old = "pending" /\ new = "processing"
              \/ old = "processing" /\ new \in {"completed", "failed"}
              \/ old \in {"completed", "failed"} /\ new = "processing"]_vars

====
